---- MODULE Spec2Model ----
(***************************************************************************)
(* A model of the expenses tracker: the CSV-backed transaction store       *)
(* (internal/data/csv.go), the handlers that write to it (web server and   *)
(* Telegram bot), and the budget-cycle arithmetic of /saldo and /report    *)
(* (internal/bot/bot.go).                                                  *)
(*                                                                         *)
(* Representation of Go values:                                            *)
(*   - a date string "YYYY-MM-DD" is the tuple <<y, m, d>> (the numbers    *)
(*     may be out of range, e.g. <<2024, 2, 30>>); the empty string is     *)
(*     <<>> and any other text is <<0>>;                                   *)
(*   - an amount string is a sequence of one-character strings,            *)
(*     "10.50" is <<"1","0",".","5","0">>;                                 *)
(*   - a float64 amount is an integer number of thousandths;               *)
(*   - a CSV file is the sequence of its records, a record the sequence    *)
(*     of its fields.                                                      *)
(***************************************************************************)
EXTENDS Integers, Sequences, FiniteSets, TLC

\* Largest number of rows the in-memory table is allowed to grow to.
MaxTable == 2

\* ------------------------------------------------------------------------
\* strconv

DigitVal ==
  [c \in {"0", "1", "2", "3", "4", "5", "6", "7", "8", "9"} |->
     CASE c = "0" -> 0 [] c = "1" -> 1 [] c = "2" -> 2 [] c = "3" -> 3
       [] c = "4" -> 4 [] c = "5" -> 5 [] c = "6" -> 6 [] c = "7" -> 7
       [] c = "8" -> 8 [] c = "9" -> 9]

DigitChar == <<"0", "1", "2", "3", "4", "5", "6", "7", "8", "9">>

IsDigits(s) == \A i \in 1..Len(s) : s[i] \in DOMAIN DigitVal

RECURSIVE DigitsToNat(_)
DigitsToNat(s) ==
  IF s = <<>> THEN 0
  ELSE 10 * DigitsToNat(SubSeq(s, 1, Len(s) - 1)) + DigitVal[s[Len(s)]]

RECURSIVE NatToDigits(_)
NatToDigits(n) ==
  IF n < 10 THEN <<DigitChar[n + 1]>>
  ELSE NatToDigits(n \div 10) \o <<DigitChar[(n % 10) + 1]>>

\* strconv.ParseFloat(s, 64) on the decimal syntax [+-]digits[.digits] and
\* on "NaN" in any case of its letters (exponents, hexadecimal and the
\* infinities are left out); the value is kept in thousandths. err is TRUE
\* where ParseFloat returns an error; nan is TRUE where the value is not a
\* number, which is neither above nor below nor equal to any number.
ParseFloat(s) ==
  LET signed == Len(s) > 0 /\ s[1] \in {"-", "+"}
      body   == IF signed THEN Tail(s) ELSE s
      dots   == {i \in 1..Len(body) : body[i] = "."}
      dot    == IF dots = {} THEN Len(body) + 1 ELSE CHOOSE i \in dots : TRUE
      whole  == SubSeq(body, 1, dot - 1)
      frac   == SubSeq(body, dot + 1, Len(body))
      frac3  == SubSeq(frac \o <<"0", "0", "0">>, 1, 3)
      ok     == /\ Cardinality(dots) <= 1
                /\ IsDigits(whole) /\ IsDigits(frac)
                /\ Len(whole) + Len(frac) > 0
      mag    == 1000 * DigitsToNat(whole) + DigitsToNat(frac3)
  IN  IF ok
      THEN [err |-> FALSE, nan |-> FALSE,
            val |-> IF signed /\ s[1] = "-" THEN 0 - mag ELSE mag]
      ELSE IF /\ Len(s) = 3
              /\ s[1] \in {"n", "N"} /\ s[2] \in {"a", "A"} /\ s[3] \in {"n", "N"}
      THEN [err |-> FALSE, nan |-> TRUE, val |-> 0]
      ELSE [err |-> TRUE, nan |-> FALSE, val |-> 0]

\* strconv.FormatFloat(x, 'f', 2, 64): the amount rounded to hundredths and
\* written with exactly two digits after the point.
FormatFloat(x) ==
  LET mag == IF x < 0 THEN 0 - x ELSE x
      h   == (mag + 5) \div 10
      txt == NatToDigits(h \div 100) \o <<".">>
             \o <<DigitChar[((h % 100) \div 10) + 1], DigitChar[(h % 10) + 1]>>
  IN  IF x < 0 THEN <<"-">> \o txt ELSE txt

\* ------------------------------------------------------------------------
\* time: instants are whole hours since 1970-01-01 00:00 UTC, a time.Time is
\* an instant with its location. The conversions are functions, so that
\* their arguments are values.

\* Days from 1970-01-01 to the proleptic Gregorian date y-m-d; m in 1..12, d
\* may run past the end of the month.
DaysFromCivil[y \in Int, m \in Int, d \in Int] ==
  LET yy  == IF m <= 2 THEN y - 1 ELSE y
      era == yy \div 400
      yoe == yy - era * 400
      mp  == (m + 9) % 12
      doy == (153 * mp + 2) \div 5 + d - 1
      doe == yoe * 365 + yoe \div 4 - yoe \div 100 + doy
  IN  era * 146097 + doe - 719468

\* The date <<y, m, d>> that lies z days after 1970-01-01.
CivilFromDays[z \in Int] ==
  LET zz  == z + 719468
      era == zz \div 146097
      doe == zz - era * 146097
      yoe == (doe - doe \div 1460 + doe \div 36524 - doe \div 146096) \div 365
      doy == doe - (365 * yoe + yoe \div 4 - yoe \div 100)
      mp  == (5 * doy + 2) \div 153
      d   == doy - (153 * mp + 2) \div 5 + 1
      m   == IF mp < 10 THEN mp + 3 ELSE mp - 9
      y   == yoe + era * 400
  IN  <<IF m <= 2 THEN y + 1 ELSE y, m, d>>

IsLeap(y) == y % 4 = 0 /\ (y % 100 # 0 \/ y % 400 = 0)

DaysIn(y, m) ==
  IF m = 2 THEN (IF IsLeap(y) THEN 29 ELSE 28)
  ELSE IF m \in {4, 6, 9, 11} THEN 30 ELSE 31

\* time.Weekday of a day number: 0 is Sunday (1970-01-01 was a Thursday).
Weekday(z) == (z + 4) % 7

\* The n-th Sunday of month m of year y, as a day number.
NthSunday[y \in Int, m \in Int, n \in Int] ==
  LET first == DaysFromCivil[y, m, 1]
  IN  first + ((7 - Weekday(first)) % 7) + 7 * (n - 1)

\* The locations time.LoadLocation is asked for: UTC, and a zone with
\* daylight saving time (America/New_York: UTC-5, and UTC-4 from 02:00 on the
\* second Sunday of March to 02:00 on the first Sunday of November).
Locations == {"UTC", "America/New_York"}

Times == [loc : Locations, h : Int]

StdOffset(loc) == IF loc = "UTC" THEN 0 ELSE 0 - 5

DstOffset(loc) == IF loc = "UTC" THEN 0 ELSE 0 - 4

\* The instants at which daylight saving time begins and ends in year y.
DstBegin(loc, y) == 24 * NthSunday[y, 3, 2] + 2 - StdOffset(loc)

DstEnd(loc, y) == 24 * NthSunday[y, 11, 1] + 2 - DstOffset(loc)

\* Whether daylight saving time is in force at instant h of year y.
InDst[loc \in Locations, h \in Int, y \in Int] ==
  /\ StdOffset(loc) # DstOffset(loc)
  /\ DstBegin(loc, y) <= h
  /\ h < DstEnd(loc, y)

\* The zone offset (hours east of UTC) in force at instant h.
OffsetAt[loc \in Locations, h \in Int] ==
  IF InDst[loc, h, CivilFromDays[h \div 24][1]]
  THEN DstOffset(loc) ELSE StdOffset(loc)

\* The instant of the local midnight that begins day number days.
Midnight[loc \in Locations, days \in Int] ==
  IF OffsetAt[loc, 24 * days - StdOffset(loc)] = StdOffset(loc)
  THEN 24 * days - StdOffset(loc)
  ELSE 24 * days - DstOffset(loc)

\* time.Date(y, m, d, 0, 0, 0, 0, loc): month and day are normalised, and
\* the result is the instant of that local midnight.
Date[y \in Int, m \in Int, d \in Int, loc \in Locations] ==
  [loc |-> loc,
   h   |-> Midnight[loc, DaysFromCivil[y + (m - 1) \div 12, ((m - 1) % 12) + 1, 1]
                         + d - 1]]

\* t.Date(): year, month and day of t in its location.
DateOf[t \in Times] == CivilFromDays[(t.h + OffsetAt[t.loc, t.h]) \div 24]

\* t.AddDate(years, months, days) of a local midnight.
AddDate[t \in Times, years \in Int, months \in Int, days \in Int] ==
  LET c == DateOf[t]
  IN  Date[c[1] + years, c[2] + months, c[3] + days, t.loc]

\* time.Parse / time.ParseInLocation with layout "2006-01-02": an error for
\* anything but a four-digit year, a month 01..12 and a day of that month.
ParseInLocation(str, loc) ==
  IF /\ Len(str) = 3
     /\ str[1] >= 0 /\ str[1] <= 9999
     /\ str[2] >= 1 /\ str[2] <= 12
     /\ str[3] >= 1 /\ str[3] <= DaysIn(str[1], str[2])
  THEN [err |-> FALSE, t |-> Date[str[1], str[2], str[3], loc]]
  ELSE [err |-> TRUE, t |-> [loc |-> loc, h |-> 0]]

\* t.Format("2006-01-02")
Format(t) == DateOf[t]

\* t.In(loc)
In(t, loc) == [loc |-> loc, h |-> t.h]

\* int(a.Sub(b).Hours() / 24): the hours between the two instants, divided
\* by 24 and truncated toward zero.
DaysBetween[a \in Times, b \in Times] ==
  LET hours == a.h - b.h
  IN  IF hours >= 0 THEN hours \div 24 ELSE 0 - ((0 - hours) \div 24)

\* ------------------------------------------------------------------------
\* The store: type Data, and the backing file

Header == <<"Date", "Category", "Description", "Amount">>

\* compareStringSlices(a, b)
compareStringSlices(a, b) ==
  /\ Len(a) = Len(b)
  /\ \A i \in 1..Len(a) : a[i] = b[i]

\* The record save() writes for one transaction.
RowOf(tx) == <<tx.Date, tx.Category, tx.Description, FormatFloat(tx.Amount)>>

\* Everything one full rewrite hands to the csv.Writer, in order.
Records(table) == <<Header>> \o [i \in 1..Len(table) |-> RowOf(table[i])]

\* csv.Reader.ReadAll with FieldsPerRecord = 0: the first record fixes the
\* number of fields, and a record of another length is ErrFieldCount.
ReadAll(f) ==
  IF \E i \in 1..Len(f) : Len(f[i]) # Len(f[1])
  THEN [err |-> TRUE, records |-> <<>>]
  ELSE [err |-> FALSE, records |-> f]

Tx(date, category, description, amount) ==
  [Date |-> date, Category |-> category, Description |-> description,
   Amount |-> amount]

\* A loader that drops the records it cannot take and goes on.
RECURSIVE LoadRowsLenient(_, _)
LoadRowsLenient(recs, acc) ==
  IF recs = <<>> THEN [err |-> FALSE, table |-> acc]
  ELSE LET record == Head(recs)
       IN  IF Len(record) # 4 \/ ParseFloat(record[4]).err
           THEN LoadRowsLenient(Tail(recs), acc)
           ELSE LoadRowsLenient(Tail(recs),
                                Append(acc, Tx(record[1], record[2], record[3],
                                               ParseFloat(record[4]).val)))

\* The rows load() appends before it returns (with or without an error):
\* it stops at the first record it rejects.
RECURSIVE LoadRows(_, _)
LoadRows(recs, acc) ==
  IF recs = <<>> THEN [err |-> FALSE, table |-> acc]
  ELSE LET record == Head(recs)
       IN  IF Len(record) # 4 THEN [err |-> TRUE, table |-> acc]
           ELSE LET amount == ParseFloat(record[4])
                IN  IF amount.err THEN [err |-> TRUE, table |-> acc]
                    ELSE LoadRows(Tail(recs),
                                  Append(acc, Tx(record[1], record[2],
                                                 record[3], amount.val)))

\* load(): what it returns and what it leaves in d.Transactions and on disk.
\* created is TRUE where load() made the file (os.Create, nothing written).
LoadResult(exists, f) ==
  IF ~exists THEN [err |-> FALSE, table |-> <<>>, created |-> TRUE]
  ELSE LET r == ReadAll(f)
       IN  IF r.err THEN [err |-> TRUE, table |-> <<>>, created |-> FALSE]
           ELSE IF Len(r.records) = 0
           THEN [err |-> FALSE, table |-> <<>>, created |-> FALSE]
           ELSE IF ~compareStringSlices(r.records[1], Header)
           THEN [err |-> TRUE, table |-> <<>>, created |-> FALSE]
           ELSE LET rows == LoadRows(Tail(r.records), <<>>)
                IN  [err |-> rows.err, table |-> rows.table, created |-> FALSE]

\* ------------------------------------------------------------------------
\* encoding/csv, character by character: what csv.Writer puts into the file
\* for a record and what csv.Reader makes of the file's characters. A text is
\* a sequence of one-character strings; the double quote, the line feed and
\* the carriage return are written QUOTE, LF and CR.

Comma == ","
Quote == "QUOTE"
LF == "LF"
CR == "CR"
Space == " "

\* The header, as the texts save() writes and load() expects.
HeaderText ==
  << <<"D", "a", "t", "e">>,
     <<"C", "a", "t", "e", "g", "o", "r", "y">>,
     <<"D", "e", "s", "c", "r", "i", "p", "t", "i", "o", "n">>,
     <<"A", "m", "o", "u", "n", "t">> >>

\* (w *Writer) fieldNeedsQuotes: a field with a delimiter, a quote, a line
\* feed or a carriage return, or one that begins with a space. (Its case of
\* the field \. is left out: no text here holds a backslash.)
fieldNeedsQuotes(field) ==
  /\ field # <<>>
  /\ \/ \E i \in 1..Len(field) : field[i] \in {LF, CR, Quote, Comma}
     \/ field[1] = Space

\* The inside of a quoted field: a quote is doubled, everything else
\* (UseCRLF is false) is written as it is.
RECURSIVE Escaped(_)
Escaped(field) ==
  IF field = <<>> THEN <<>>
  ELSE (IF Head(field) = Quote THEN <<Quote, Quote>> ELSE <<Head(field)>>)
       \o Escaped(Tail(field))

WriteField(field) ==
  IF fieldNeedsQuotes(field) THEN <<Quote>> \o Escaped(field) \o <<Quote>>
  ELSE field

\* (w *Writer) Write(record): the fields, delimiters between them, and a
\* line feed.
RECURSIVE WriteFields(_)
WriteFields(record) ==
  IF Len(record) = 0 THEN <<>>
  ELSE IF Len(record) = 1 THEN WriteField(record[1])
  ELSE WriteField(Head(record)) \o <<Comma>> \o WriteFields(Tail(record))

Write(record) == WriteFields(record) \o <<LF>>

\* What a rewrite that is written out in full leaves in the file.
RECURSIVE WriteAll(_)
WriteAll(records) ==
  IF records = <<>> THEN <<>>
  ELSE Write(Head(records)) \o WriteAll(Tail(records))

\* The place of the first c in s, 0 if there is none.
IndexOf(s, c) ==
  IF \E i \in 1..Len(s) : s[i] = c
  THEN CHOOSE i \in 1..Len(s) : s[i] = c /\ \A j \in 1..(i - 1) : s[j] # c
  ELSE 0

\* lengthNL(line)
lengthNL(line) == IF Len(line) > 0 /\ line[Len(line)] = LF THEN 1 ELSE 0

\* A string, character by character.
Str == Seq(STRING)

\* (r *Reader) readLine: the characters up to the next line feed, and what
\* follows them. A carriage return before the line feed is dropped, and so
\* is one that ends the file.
readLine[b \in Str] ==
  LET n    == IndexOf(b, LF)
      raw  == IF n = 0 THEN b ELSE SubSeq(b, 1, n)
      rest == IF n = 0 THEN <<>> ELSE SubSeq(b, n + 1, Len(b))
      line == IF n >= 2 /\ raw[n - 1] = CR THEN SubSeq(raw, 1, n - 2) \o <<LF>>
              ELSE IF n = 0 /\ Len(raw) > 0 /\ raw[Len(raw)] = CR
              THEN SubSeq(raw, 1, Len(raw) - 1)
              ELSE raw
  IN  [line |-> line, rest |-> rest]

\* (r *Reader) readRecord, from the first field on: line is what is left of
\* the line, rest what follows the line, fields the fields read so far.
\* quoted says that the reader is inside a quoted field, of which it has
\* read buf. A quoted field may run over several lines, each read with
\* readLine. err: a bare quote in an unquoted field, or a quoted field that
\* does not end where a field may end.
parseField[quoted \in BOOLEAN, line \in Str, rest \in Str, fields \in Seq(Str), buf \in Str] ==
  LET failed == [err |-> TRUE, fields |-> <<>>, rest |-> rest]
  IN  IF ~quoted
      THEN IF Len(line) = 0 \/ line[1] # Quote
           THEN LET i     == IndexOf(line, Comma)
                    field == IF i > 0 THEN SubSeq(line, 1, i - 1)
                             ELSE SubSeq(line, 1, Len(line) - lengthNL(line))
                IN  IF IndexOf(field, Quote) > 0 THEN failed
                    ELSE IF i > 0
                    THEN parseField[FALSE, SubSeq(line, i + 1, Len(line)), rest,
                                    Append(fields, field), <<>>]
                    ELSE [err |-> FALSE, fields |-> Append(fields, field),
                          rest |-> rest]
           ELSE parseField[TRUE, Tail(line), rest, fields, <<>>]
      ELSE LET i == IndexOf(line, Quote)
           IN  IF i > 0
               THEN LET got   == buf \o SubSeq(line, 1, i - 1)
                        after == SubSeq(line, i + 1, Len(line))
                    IN  IF Len(after) > 0 /\ after[1] = Quote
                        THEN parseField[TRUE, Tail(after), rest, fields,
                                        Append(got, Quote)]
                        ELSE IF Len(after) > 0 /\ after[1] = Comma
                        THEN parseField[FALSE, Tail(after), rest,
                                        Append(fields, got), <<>>]
                        ELSE IF lengthNL(after) = Len(after)
                        THEN [err |-> FALSE, fields |-> Append(fields, got),
                              rest |-> rest]
                        ELSE failed
               ELSE IF Len(line) > 0
               THEN parseField[TRUE, readLine[rest].line, readLine[rest].rest,
                               fields, buf \o line]
               ELSE failed

\* (r *Reader) ReadAll on the characters b, records being those read so far:
\* empty lines are skipped, and a record with another number of fields than
\* the first is an error.
readRecords[b \in Str, records \in Seq(Seq(Str))] ==
  IF b = <<>> THEN [err |-> FALSE, records |-> records]
  ELSE LET nl == readLine[b]
       IN  IF Len(nl.line) = lengthNL(nl.line) THEN readRecords[nl.rest, records]
           ELSE LET r == parseField[FALSE, nl.line, nl.rest, <<>>, <<>>]
                IN  IF r.err THEN [err |-> TRUE, records |-> <<>>]
                    ELSE IF Len(records) > 0 /\ Len(r.fields) # Len(records[1])
                    THEN [err |-> TRUE, records |-> <<>>]
                    ELSE readRecords[r.rest, Append(records, r.fields)]

\* save() of a table whose fields are texts, written out in full.
saveText(table) ==
  WriteAll(<<HeaderText>> \o [i \in 1..Len(table) |-> RowOf(table[i])])

\* load() of a fresh store from the characters of an existing file.
loadText(b) ==
  LET r == readRecords[b, <<>>]
  IN  IF r.err THEN [err |-> TRUE, table |-> <<>>]
      ELSE IF Len(r.records) = 0 THEN [err |-> FALSE, table |-> <<>>]
      ELSE IF ~compareStringSlices(r.records[1], HeaderText)
      THEN [err |-> TRUE, table |-> <<>>]
      ELSE LoadRows(Tail(r.records), <<>>)

\* ------------------------------------------------------------------------
\* State

\* The goroutines that reach the store: gin's request goroutines and the
\* bot's update loop (cmd/main.go).
Http == {"h1", "h2"}
BotTask == "bot"
Tasks == Http \cup {BotTask}
NoTask == "none"

VARIABLES
  started,       \* "boot" until data.New returns; then "serving", "failed"
                 \* (New returned an error, main panics) or "crashed" (a panic
                 \* in the bot goroutine ended the process)
  fileExists,    \* whether the backing file exists
  file,          \* the records the backing file holds
  Transactions,  \* d.Transactions
  mu,            \* d.mu: the task holding it, or NoTask
  wbuf,          \* records buffered in save()'s csv.Writer, not yet in the file
  pc,            \* per task: where it is in its handler
  op,            \* per task: the store call in progress
  rows,          \* per task: the transactions its import accepted
  cursor,        \* per task: how many of them the import's loop has taken
  ret,           \* the value the running save() is going to return
  saved,         \* the value the last save() to return returned ("none": no
                 \* save() returned yet)
  reply,         \* the last handler to end, and how it ended: "ok", "err"
                 \* (its store call failed) or "rejected"; for an upload
                 \* that was refused, the upload and the row errors the
                 \* reply lists
  arg,           \* per task: the argument of its running AddTransaction
  idx,           \* per task: the index that AddTransaction appended at
                 \* (0: none, or the table was replaced since)
  hist           \* the rows appended or installed so far, in order

storeVars == <<started, fileExists, file, Transactions, mu, wbuf, pc, op,
               rows, cursor, ret, saved, reply, arg, idx, hist>>

VARIABLES
  location,                  \* b.location
  SALARY_DAY,                \* the environment variable, as text
  MONTHLY_BUDGET_RUB,        \* the environment variable, as text
  monthlyBudgetOverride,     \* b.monthlyBudgetOverride
  hasMonthlyBudgetOverride,  \* b.hasMonthlyBudgetOverride
  out                        \* what /saldo or /report has computed and is
                             \* about to send (NoOut: nothing to send)

botVars == <<location, SALARY_DAY, MONTHLY_BUDGET_RUB, monthlyBudgetOverride,
             hasMonthlyBudgetOverride, out>>

VARIABLES
  requests,      \* the bodies of POST /transaction that clients send
  uploads        \* the CSV documents that clients upload

envVars == <<requests, uploads>>

VARIABLES
  backup,        \* the copy of the backing file that the last backup made
  bytes,         \* the characters of the backing file, where the model
                 \* follows them
  exported,      \* the slice that /export or /report sorted and is sending
  graph          \* the answer of GET /graph/data that is being sent

otherVars == <<backup, bytes, exported, graph>>

NoGraph == [sent |-> FALSE]

NoExport == [sent |-> FALSE, all |-> <<>>]

\* No backup was made yet.
NoBackup == [taken |-> FALSE, data |-> <<>>]

NoOut == [cmd |-> "none"]

\* What a handler answers: name is the operation, status how it ended.
Reply(name, status, upload, errors) ==
  [op |-> name, status |-> status, upload |-> upload, errors |-> errors]

\* ------------------------------------------------------------------------
\* Inputs

TxA == Tx(<<2023, 1, 1>>, "Food", "Lunch", 10500)
TxB == Tx(<<2023, 1, 2>>, "Transport", "", 2000)
NoTx == Tx(<<>>, "", "", 0)

Req(tx, chat) ==
  [Date |-> tx.Date, Category |-> tx.Category,
   Description |-> tx.Description, Amount |-> tx.Amount, ChatID |-> chat]

\* Bodies of POST /transaction: two that pass the checks, one with a date
\* that is no date, and one for each check that refuses.
ReqInputs ==
  { Req(TxA, 0), Req(TxB, 7),
    Req(Tx(<<0>>, "Food", "Lunch", 10500), 0),
    Req(Tx(<<>>, "Food", "Lunch", 10500), 0),
    Req(Tx(<<2024, 1, 1>>, "", "Lunch", 10500), 0),
    Req(Tx(<<2024, 1, 1>>, "Food", "Lunch", 0), 7) }

RowA == RowOf(TxA)
RowB == RowOf(TxB)
RowBadAmount == <<<<2024, 1, 3>>, "Food", "Lunch", <<"a", "b", "c">>>>
RowNegative == <<<<2024, 1, 3>>, "Food", "Lunch", <<"-", "5">>>>
RowShort == <<<<2024, 1, 3>>, "Food", "Lunch">>
BadHeader == <<"Date", "Category", "Description", "Invalid">>

\* What may lie on disk when the process starts.
BootFiles ==
  { <<>>, <<Header, RowA>>, <<BadHeader, RowA>>, <<Header, RowBadAmount>>,
    <<Header, RowA, RowShort>>, <<Header, RowNegative, RowBadAmount>> }

\* Uploaded CSV files.
CsvInputs ==
  { <<>>, <<Header>>, <<Header, RowA>>, <<Header, RowB, RowA>>,
    <<BadHeader, RowA>>, <<Header, RowBadAmount>>, <<Header, RowA, RowShort>>,
    <<Header, RowNegative, RowBadAmount>> }

\* The requests and uploads sent while the three tasks run side by side: a
\* request and an upload of each outcome.
FewRequests ==
  { Req(TxA, 0), Req(TxB, 7), Req(Tx(<<2024, 1, 1>>, "Food", "Lunch", 0), 7) }

FewUploads ==
  { <<>>, <<Header>>, <<Header, RowA>>, <<Header, RowB, RowA>>,
    <<BadHeader, RowA>>, <<Header, RowBadAmount>> }

\* ------------------------------------------------------------------------
\* Construction: data.New and load()

Init ==
  /\ started = "boot"
  /\ fileExists \in BOOLEAN
  /\ file \in (IF fileExists THEN BootFiles ELSE {<<>>})
  /\ Transactions = <<>>
  /\ mu = NoTask
  /\ wbuf = <<>>
  /\ pc = [t \in Tasks |-> "idle"]
  /\ op = [t \in Tasks |-> "none"]
  /\ rows = [t \in Tasks |-> <<>>]
  /\ cursor = [t \in Tasks |-> 0]
  /\ ret = "nil"
  /\ saved = "none"
  /\ reply = Reply("none", "none", <<>>, <<>>)
  /\ arg = [t \in Tasks |-> NoTx]
  /\ idx = [t \in Tasks |-> 0]
  /\ hist = <<>>
  /\ requests = FewRequests
  /\ uploads = FewUploads
  /\ location = "UTC"
  /\ SALARY_DAY = <<>>
  /\ MONTHLY_BUDGET_RUB = <<>>
  /\ monthlyBudgetOverride = [nan |-> FALSE, val |-> 0]
  /\ hasMonthlyBudgetOverride = FALSE
  /\ out = NoOut
  /\ backup = NoBackup
  /\ bytes = <<>>
  /\ exported = NoExport
  /\ graph = NoGraph

\* db, err := data.New(dataPath); if err != nil { log.Panic(err) }
Load ==
  /\ UNCHANGED <<botVars, envVars, otherVars>>
  /\ started = "boot"
  /\ LET r == LoadResult(fileExists, file)
     IN  /\ started' = IF r.err THEN "failed" ELSE "serving"
         /\ Transactions' = IF r.err THEN <<>> ELSE r.table
         /\ hist' = IF r.err THEN <<>> ELSE r.table
         /\ fileExists' = TRUE
         /\ file' = IF r.created THEN <<>> ELSE file
  /\ UNCHANGED <<mu, wbuf, pc, op, rows, cursor, ret, saved, reply, arg, idx>>

\* ------------------------------------------------------------------------
\* data.AddTransaction and data.save

\* An append that puts the row in twice.
AppendTwice(table, newTx) == Append(Append(table, newTx), newTx)

\* d.Transactions = append(d.Transactions, tx)
AppendTx(table, newTx) == Append(table, newTx)

\* Rows that imports in progress are still going to append.
Reserved == Len(rows[BotTask]) - cursor[BotTask]

\* AddTransaction up to its Unlock: the append, under the lock. The call goes
\* on with save().
AddTransaction(t, newTx, name) ==
  /\ mu = NoTask
  /\ Len(Transactions) < MaxTable
  /\ Transactions' = AppendTx(Transactions, newTx)
  /\ hist' = Append(hist, newTx)
  /\ arg' = [arg EXCEPT ![t] = newTx]
  /\ idx' = [idx EXCEPT ![t] = Len(Transactions) + 1]
  /\ op' = [op EXCEPT ![t] = name]
  /\ pc' = [pc EXCEPT ![t] = "save"]
  /\ UNCHANGED <<started, fileExists, file, mu, wbuf, ret, saved, reply>>

\* A store that takes its last row back when the rewrite fails.
RolledBack(table, r) ==
  IF r = "err" /\ Len(table) > 0 THEN SubSeq(table, 1, Len(table) - 1)
  ELSE table

\* d.Transactions once save() has returned r: save() only reads the table, and
\* AddTransaction returns what save() returns without touching it again.
TableAfterSave(table, r) == table

\* The caller of save() gets r: AddTransaction hands it on to its handler,
\* which ends, or (the bot's import loop) goes on to its next row.
Return(t, r) ==
  /\ saved' = r
  /\ IF op[t] = "import" /\ r = "nil" /\ cursor[t] < Len(rows[t])
     THEN /\ pc' = [pc EXCEPT ![t] = "append"]
          /\ UNCHANGED <<op, rows, cursor, reply>>
     ELSE /\ pc' = [pc EXCEPT ![t] = "idle"]
          /\ op' = [op EXCEPT ![t] = "none"]
          /\ rows' = [rows EXCEPT ![t] = <<>>]
          /\ cursor' = [cursor EXCEPT ![t] = 0]
          /\ reply' = Reply(op[t],
                             IF r = "nil" \/ op[t] = "clear" THEN "ok" ELSE "err",
                             <<>>, <<>>)

\* save(): Lock, os.Create. A failed Create returns its error; otherwise the
\* file is truncated.
SaveCreate(t) ==
  /\ UNCHANGED <<botVars, envVars, otherVars>>
  /\ started = "serving"
  /\ pc[t] = "save"
  /\ mu = NoTask
  /\ \E ok \in BOOLEAN :
       IF ok
       THEN /\ mu' = t
            /\ file' = <<>>
            /\ wbuf' = <<>>
            /\ pc' = [pc EXCEPT ![t] = "write"]
            /\ UNCHANGED <<Transactions, op, rows, cursor, saved, reply, arg,
                           idx>>
       ELSE /\ Return(t, "err")
            /\ Transactions' = TableAfterSave(Transactions, "err")
            /\ arg' = [arg EXCEPT ![t] = NoTx]
            /\ idx' = [idx EXCEPT ![t] = 0]
            /\ UNCHANGED <<mu, file, wbuf>>
  /\ UNCHANGED <<started, fileExists, ret, hist>>

\* save(): writer.Write of the header (its error dropped) and of every row.
\* The csv.Writer buffers; when its buffer fills it writes what it holds to
\* the file, and that write may fail. flushed is how many records reached the
\* file that way. A failed write makes the Write of the row in progress return
\* the error (the buffer's error is sticky), and save returns it. The header
\* alone never fills the buffer.
SaveWrite(t) ==
  /\ UNCHANGED <<botVars, envVars, otherVars>>
  /\ started = "serving"
  /\ pc[t] = "write"
  /\ mu = t
  /\ LET recs == Records(Transactions)
     IN  \E flushed \in 0..(Len(recs) - 1), failed \in BOOLEAN :
           /\ failed => Len(recs) >= 2
           /\ file' = SubSeq(recs, 1, flushed)
           /\ wbuf' = IF failed THEN <<>>
                      ELSE SubSeq(recs, flushed + 1, Len(recs))
           /\ ret' = IF failed THEN "err" ELSE "nil"
  /\ pc' = [pc EXCEPT ![t] = "flush"]
  /\ UNCHANGED <<started, fileExists, Transactions, mu, op, rows, cursor,
                 saved, reply, arg, idx, hist>>

\* save(): the deferred writer.Flush (which returns nothing: a failed write
\* of the buffer is not seen), file.Close and Unlock; then the return.
SaveFlush(t) ==
  /\ UNCHANGED <<botVars, envVars, otherVars>>
  /\ started = "serving"
  /\ pc[t] = "flush"
  /\ mu = t
  /\ \E written \in 0..Len(wbuf) :
       file' = file \o SubSeq(wbuf, 1, written)
  /\ wbuf' = <<>>
  /\ mu' = NoTask
  /\ Return(t, ret)
  /\ Transactions' = TableAfterSave(Transactions, ret)
  /\ ret' = "nil"
  /\ arg' = [arg EXCEPT ![t] = NoTx]
  /\ idx' = [idx EXCEPT ![t] = 0]
  /\ UNCHANGED <<started, fileExists, hist>>

\* ------------------------------------------------------------------------
\* Handlers

\* handleTransaction's checks of the request body; HandleWebAppData repeats
\* them on the payload.
ValidRequest(req) ==
  /\ req.Date # <<>>
  /\ req.Category # ""
  /\ req.Amount > 0

TxOfRequest(req) == Tx(req.Date, req.Category, req.Description, req.Amount)

Reject(t, name) ==
  /\ reply' = Reply(name, "rejected", <<>>, <<>>)
  /\ UNCHANGED <<started, fileExists, file, Transactions, mu, wbuf, pc, op,
                 rows, cursor, ret, saved, arg, idx, hist>>

\* An import refuses the upload f; errors are the row errors its reply
\* lists (none where the reply is a single message).
RejectUpload(t, name, f, errors) ==
  /\ reply' = Reply(name, "rejected", f, errors)
  /\ UNCHANGED <<started, fileExists, file, Transactions, mu, wbuf, pc, op,
                 rows, cursor, ret, saved, arg, idx, hist>>

\* errors[:10] where the capacity of errors allows it: ten elements, those
\* past the length of errors being empty strings.
FirstTen(errors) ==
  [i \in 1..10 |-> IF i <= Len(errors) THEN errors[i]
                   ELSE [line |-> 0, what |-> ""]]

\* POST /transaction: with a chat id the request goes to the bot's
\* HandleWebAppData, which appends; without one handleTransaction appends.
handleTransaction(t) ==
  /\ UNCHANGED <<botVars, envVars, otherVars>>
  /\ started = "serving"
  /\ pc[t] = "idle"
  /\ \E req \in requests :
       IF ~ValidRequest(req) THEN Reject(t, "add")
       ELSE IF req.ChatID # 0
       THEN /\ ValidRequest(TxOfRequest(req))
            /\ Len(Transactions) + Reserved < MaxTable
            /\ AddTransaction(t, TxOfRequest(req), "webapp")
            /\ UNCHANGED <<rows, cursor>>
       ELSE /\ Len(Transactions) + Reserved < MaxTable
            /\ AddTransaction(t, TxOfRequest(req), "add")
            /\ UNCHANGED <<rows, cursor>>

\* The row checks shared by the two CSV imports: the transactions accepted
\* and one error per rejected row, with its line number.
RECURSIVE ValidateRows(_, _, _)
ValidateRows(recs, line, acc) ==
  IF recs = <<>> THEN acc
  ELSE LET record == Head(recs)
           amount == ParseFloat(record[4])
           next   ==
             IF Len(record) # 4
             THEN [acc EXCEPT !.errors = Append(@, [line |-> line, what |-> "fields"])]
             ELSE IF amount.err
             THEN [acc EXCEPT !.errors = Append(@, [line |-> line, what |-> "amount"])]
             ELSE IF ~amount.nan /\ amount.val <= 0
             THEN [acc EXCEPT !.errors = Append(@, [line |-> line, what |-> "positive"])]
             ELSE [acc EXCEPT !.transactions =
                     Append(@, Tx(record[1], record[2], record[3], amount.val))]
       IN  ValidateRows(Tail(recs), line + 1, next)

\* What both imports do with an upload before they touch the store.
\* verdict: "unreadable" (ReadAll failed), "empty", "header", "rows" (row
\* errors) or "ok".
CheckCsv(f) ==
  LET r == ReadAll(f)
      none == [transactions |-> <<>>, errors |-> <<>>]
  IN  IF r.err THEN [verdict |-> "unreadable"] @@ none
      ELSE IF Len(r.records) = 0 THEN [verdict |-> "empty"] @@ none
      ELSE IF Len(r.records[1]) # 4 \/ ~compareStringSlices(r.records[1], Header)
      THEN [verdict |-> "header"] @@ none
      ELSE LET v == ValidateRows(Tail(r.records), 2, none)
           IN  [verdict |-> IF Len(v.errors) > 0 THEN "rows" ELSE "ok"] @@ v

\* cap() of a slice grown from nil by n appends of one element.
RECURSIVE SliceCap(_)
SliceCap(n) == IF n <= 1 THEN n ELSE 2 * SliceCap((n + 1) \div 2)

\* A panic outside gin's recovery ends the process: the bot's import of the
\* upload f sends no reply.
Panic(f) ==
  /\ started' = "crashed"
  /\ reply' = Reply("import", "panic", f, <<>>)
  /\ UNCHANGED <<fileExists, file, Transactions, mu, wbuf, pc, op, rows,
                 cursor, ret, saved, arg, idx, hist>>

\* The bot's handleFileUpload up to its first AddTransaction. errors[:10]
\* panics when cap(errors) < 10; transactions[0] in the success message
\* panics when no row was imported.
handleFileUpload ==
  /\ UNCHANGED <<botVars, envVars, otherVars>>
  /\ started = "serving"
  /\ pc[BotTask] = "idle"
  /\ \E f \in uploads :
       LET c == CheckCsv(f)
       IN  IF c.verdict \in {"unreadable", "empty", "header"}
           THEN RejectUpload(BotTask, "import", f, <<>>)
           ELSE IF c.verdict = "rows"
           THEN IF SliceCap(Len(c.errors)) < 10 THEN Panic(f)
                ELSE RejectUpload(BotTask, "import", f, FirstTen(c.errors))
           ELSE IF c.transactions = <<>> THEN Panic(f)
           ELSE /\ Len(Transactions) + Len(c.transactions) <= MaxTable
                /\ rows' = [rows EXCEPT ![BotTask] = c.transactions]
                /\ cursor' = [cursor EXCEPT ![BotTask] = 0]
                /\ op' = [op EXCEPT ![BotTask] = "import"]
                /\ pc' = [pc EXCEPT ![BotTask] = "append"]
                /\ UNCHANGED <<started, fileExists, file, Transactions, mu,
                               wbuf, ret, saved, reply, arg, idx, hist>>

\* handleFileUpload's loop: AddTransaction of the next accepted row.
importNext ==
  /\ UNCHANGED <<botVars, envVars, otherVars>>
  /\ started = "serving"
  /\ pc[BotTask] = "append"
  /\ cursor' = [cursor EXCEPT ![BotTask] = @ + 1]
  /\ UNCHANGED rows
  /\ AddTransaction(BotTask, rows[BotTask][cursor[BotTask] + 1], "import")

\* data.ReplaceAll(rows), up to its rewrite: the table is swapped in one
\* step under the lock. The call goes on with one full rewrite, save().
ReplaceAll(table, newRows) == newRows

\* data.Clear(): the table is emptied, and rewritten.
Clear(table) == <<>>

Swap(t, new, name) ==
  /\ mu = NoTask
  /\ Len(new) + Reserved <= MaxTable
  /\ Transactions' = new
  /\ hist' = new
  /\ rows' = [rows EXCEPT ![t] = new]
  /\ idx' = [u \in Tasks |-> 0]
  /\ op' = [op EXCEPT ![t] = name]
  /\ pc' = [pc EXCEPT ![t] = "save"]
  /\ UNCHANGED <<started, fileExists, file, mu, wbuf, cursor, ret, saved,
                 reply, arg>>

\* POST /upload-csv: no file or no records clears the store (whatever Clear
\* returns is dropped); a valid CSV replaces the table.
handleCSVUpload(t) ==
  /\ UNCHANGED <<botVars, envVars, otherVars>>
  /\ started = "serving"
  /\ pc[t] = "idle"
  /\ \/ Swap(t, Clear(Transactions), "clear")
     \/ \E f \in uploads :
          LET c == CheckCsv(f)
          IN  IF c.verdict = "empty"
              THEN Swap(t, Clear(Transactions), "clear")
              ELSE IF c.verdict = "ok"
              THEN Swap(t, ReplaceAll(Transactions, c.transactions), "replace")
              ELSE RejectUpload(t, "replace", f, c.errors)

\* ------------------------------------------------------------------------
\* The store and its writers

Next ==
  \/ Load
  \/ \E t \in Http : handleTransaction(t)
  \/ \E t \in Http : handleCSVUpload(t)
  \/ handleFileUpload
  \/ importNext
  \/ \E t \in Tasks : SaveCreate(t)
  \/ \E t \in Tasks : SaveWrite(t)
  \/ \E t \in Tasks : SaveFlush(t)

vars == <<storeVars, botVars, envVars, otherVars>>

Spec == Init /\ [][Next]_vars

\* ------------------------------------------------------------------------
\* The store and what its writers let in: one web client and the bot, sending
\* every request and every upload of the inputs above.

InitInput ==
  /\ started = "serving"
  /\ fileExists = TRUE
  /\ Transactions \in {<<>>, <<TxA>>}
  /\ file = Records(Transactions)
  /\ hist = Transactions
  /\ mu = NoTask
  /\ wbuf = <<>>
  /\ pc = [t \in Tasks |-> "idle"]
  /\ op = [t \in Tasks |-> "none"]
  /\ rows = [t \in Tasks |-> <<>>]
  /\ cursor = [t \in Tasks |-> 0]
  /\ ret = "nil"
  /\ saved = "none"
  /\ reply = Reply("none", "none", <<>>, <<>>)
  /\ arg = [t \in Tasks |-> NoTx]
  /\ idx = [t \in Tasks |-> 0]
  /\ requests = ReqInputs
  /\ uploads = CsvInputs
  /\ location = "UTC"
  /\ SALARY_DAY = <<>>
  /\ MONTHLY_BUDGET_RUB = <<>>
  /\ monthlyBudgetOverride = [nan |-> FALSE, val |-> 0]
  /\ hasMonthlyBudgetOverride = FALSE
  /\ out = NoOut
  /\ backup = NoBackup
  /\ bytes = <<>>
  /\ exported = NoExport
  /\ graph = NoGraph

NextInput ==
  \/ handleTransaction("h1")
  \/ handleCSVUpload("h1")
  \/ handleFileUpload
  \/ importNext
  \/ \E t \in {"h1", BotTask} : SaveCreate(t)
  \/ \E t \in {"h1", BotTask} : SaveWrite(t)
  \/ \E t \in {"h1", BotTask} : SaveFlush(t)

SpecInput == InitInput /\ [][NextInput]_vars

\* ------------------------------------------------------------------------
\* The daily backup (internal/backup), beside two web clients that append

\* copyFile(src, dst): os.Open and io.Copy of whatever the file holds; d.mu
\* is not taken.
copyFile(f) == [taken |-> TRUE, data |-> f]

\* doBackup: copyFileAtomic of the data file to backups/<today>.csv.
doBackup ==
  /\ started = "serving"
  /\ fileExists
  /\ backup' = copyFile(file)
  /\ UNCHANGED <<storeVars, botVars, envVars, bytes, exported, graph>>

InitBackup ==
  /\ started = "serving"
  /\ fileExists = TRUE
  /\ Transactions = <<>>
  /\ file = Records(Transactions)
  /\ hist = Transactions
  /\ mu = NoTask
  /\ wbuf = <<>>
  /\ pc = [t \in Tasks |-> "idle"]
  /\ op = [t \in Tasks |-> "none"]
  /\ rows = [t \in Tasks |-> <<>>]
  /\ cursor = [t \in Tasks |-> 0]
  /\ ret = "nil"
  /\ saved = "none"
  /\ reply = Reply("none", "none", <<>>, <<>>)
  /\ arg = [t \in Tasks |-> NoTx]
  /\ idx = [t \in Tasks |-> 0]
  /\ requests = {Req(TxA, 0), Req(TxB, 0)}
  /\ uploads = {}
  /\ location = "UTC"
  /\ SALARY_DAY = <<>>
  /\ MONTHLY_BUDGET_RUB = <<>>
  /\ monthlyBudgetOverride = [nan |-> FALSE, val |-> 0]
  /\ hasMonthlyBudgetOverride = FALSE
  /\ out = NoOut
  /\ backup = NoBackup
  /\ bytes = <<>>
  /\ exported = NoExport
  /\ graph = NoGraph

NextBackup ==
  \/ \E t \in Http : handleTransaction(t)
  \/ \E t \in Http : SaveCreate(t)
  \/ \E t \in Http : SaveWrite(t)
  \/ \E t \in Http : SaveFlush(t)
  \/ doBackup

SpecBackup == InitBackup /\ [][NextBackup]_vars

\* ------------------------------------------------------------------------
\* A table written to the file and loaded again by a fresh store

\* Longest text of a description.
MaxText == 2

TextChars == {"a", Comma, Quote, LF, CR, Space}

Texts == UNION {[1..n -> TextChars] : n \in 0..MaxText}

DateText == <<"2", "0", "2", "3", "-", "0", "1", "-", "0", "1">>

\* Rows with every description, two categories (one with a delimiter) and
\* amounts of 10.50, 0.05, -20.00 and 1.005.
TextRows ==
  { Tx(DateText, c, d, a) :
      c \in {<<"a">>, <<"a", Comma, "a">>}, d \in Texts,
      a \in {10500, 50, 0 - 20000, 1005} }

TextTables ==
  {<<>>} \cup {<<r>> : r \in TextRows}
         \cup {<<r, Tx(DateText, <<"a">>, <<>>, 2000)>> : r \in TextRows}
         \cup {<<Tx(DateText, <<"a">>, <<>>, 2000), r>> : r \in TextRows}

InitText ==
  /\ started = "serving"
  /\ fileExists = TRUE
  /\ Transactions \in TextTables
  /\ file = <<>>
  /\ hist = Transactions
  /\ mu = NoTask
  /\ wbuf = <<>>
  /\ pc = [t \in Tasks |-> "idle"]
  /\ op = [t \in Tasks |-> "none"]
  /\ rows = [t \in Tasks |-> <<>>]
  /\ cursor = [t \in Tasks |-> 0]
  /\ ret = "nil"
  /\ saved = "none"
  /\ reply = Reply("none", "none", <<>>, <<>>)
  /\ arg = [t \in Tasks |-> NoTx]
  /\ idx = [t \in Tasks |-> 0]
  /\ requests = {}
  /\ uploads = {}
  /\ location = "UTC"
  /\ SALARY_DAY = <<>>
  /\ MONTHLY_BUDGET_RUB = <<>>
  /\ monthlyBudgetOverride = [nan |-> FALSE, val |-> 0]
  /\ hasMonthlyBudgetOverride = FALSE
  /\ out = NoOut
  /\ backup = NoBackup
  /\ bytes = <<>>
  /\ exported = NoExport
  /\ graph = NoGraph

\* d.save(), every record reaching the file.
save ==
  /\ started = "serving"
  /\ saved = "none"
  /\ bytes' = saveText(Transactions)
  /\ saved' = "nil"
  /\ UNCHANGED <<started, fileExists, file, Transactions, mu, wbuf, pc, op,
                 rows, cursor, ret, reply, arg, idx, hist>>
  /\ UNCHANGED <<botVars, envVars, backup, exported, graph>>

\* data.New(dataPath) on the file just written: a fresh store loads it.
load ==
  /\ started = "serving"
  /\ saved = "nil"
  /\ LET r == loadText(bytes)
     IN  /\ started' = IF r.err THEN "failed" ELSE "loaded"
         /\ Transactions' = IF r.err THEN <<>> ELSE r.table
  /\ UNCHANGED <<fileExists, file, mu, wbuf, pc, op, rows, cursor, ret, saved,
                 reply, arg, idx, hist>>
  /\ UNCHANGED <<botVars, envVars, otherVars>>

NextText ==
  \/ save
  \/ load

SpecText == InitText /\ [][NextText]_vars

\* ------------------------------------------------------------------------
\* The bot's budget cycle: /saldo, /report and /budget

DefaultSalaryDay == 15

DefaultMonthlyBudget == 12000000

\* strconv.Atoi(s)
Atoi(s) ==
  LET signed == Len(s) > 0 /\ s[1] \in {"-", "+"}
      body   == IF signed THEN Tail(s) ELSE s
  IN  IF Len(body) > 0 /\ IsDigits(body)
      THEN [err |-> FALSE,
            val |-> IF signed /\ s[1] = "-" THEN 0 - DigitsToNat(body)
                    ELSE DigitsToNat(body)]
      ELSE [err |-> TRUE, val |-> 0]

\* getCycleStartAndNext: the salary day read from SALARY_DAY.
\* A cycle day that may be any day of a month.
salaryDayUpTo31 ==
  LET v == Atoi(SALARY_DAY)
  IN  IF SALARY_DAY # <<>> /\ ~v.err /\ v.val >= 1 /\ v.val <= 31
      THEN v.val ELSE DefaultSalaryDay

salaryDay ==
  LET v == Atoi(SALARY_DAY)
  IN  IF SALARY_DAY # <<>> /\ ~v.err /\ v.val >= 1 /\ v.val <= 28
      THEN v.val ELSE DefaultSalaryDay

\* getCycleStartAndNext(selectedDate): <<cycleStart, next>>
getCycleStartAndNext[selectedDate \in Times] ==
  LET c          == DateOf[selectedDate]
      prev       == DateOf[AddDate[selectedDate, 0, 0 - 1, 0]]
      cycleStart ==
        IF c[3] >= salaryDay
        THEN Date[c[1], c[2], salaryDay, location]
        ELSE Date[prev[1], prev[2], salaryDay, location]
  IN  <<cycleStart, AddDate[cycleStart, 0, 1, 0]>>

\* getMonthlyBudget()
getMonthlyBudget ==
  IF /\ hasMonthlyBudgetOverride
     /\ ~monthlyBudgetOverride.nan
     /\ monthlyBudgetOverride.val > 0
  THEN monthlyBudgetOverride.val
  ELSE LET v == ParseFloat(MONTHLY_BUDGET_RUB)
       IN  IF MONTHLY_BUDGET_RUB # <<>> /\ ~v.err /\ v.val > 0
           THEN v.val ELSE DefaultMonthlyBudget

\* d.GetTransactionsByDate(date)
GetTransactionsByDate(date) == SelectSeq(Transactions, LAMBDA tx : tx.Date = date)

\* A slice: the array it points into and the elements it sees there.
Slice(array, elems) == [array |-> array, elems |-> elems]

\* A GetAllTransactions that hands out d.Transactions itself.
GetAllTransactionsNoCopy == Slice("d.Transactions", Transactions)

\* d.GetAllTransactions(): under the lock, a new array of the same length
\* with the rows copied into it.
GetAllTransactions == Slice("transactionsCopy", Transactions)

\* all[i].Date > all[j].Date on the dates as strings: the empty string is
\* the least, text that begins with a letter is above every text that
\* begins with a digit, and two texts YYYY-MM-DD compare field by field.
DateStringGreater(a, b) ==
  IF a = <<>> THEN FALSE
  ELSE IF b = <<>> THEN TRUE
  ELSE IF Len(a) = 1 THEN Len(b) = 3
  ELSE IF Len(b) = 1 THEN FALSE
  ELSE \/ a[1] > b[1]
       \/ a[1] = b[1] /\ a[2] > b[2]
       \/ a[1] = b[1] /\ a[2] = b[2] /\ a[3] > b[3]

\* The less function of getAllTransactionsSortedDesc: the later date first,
\* by time.Parse (in UTC) where both dates parse, as strings otherwise.
lessDesc(x, y) ==
  LET ti == ParseInLocation(x.Date, "UTC")
      tj == ParseInLocation(y.Date, "UTC")
  IN  IF ~ti.err /\ ~tj.err THEN ti.t.h > tj.t.h
      ELSE DateStringGreater(x.Date, y.Date)

TxValues == [Date : Seq(Int), Category : STRING, Description : STRING,
             Amount : Int]

\* sort.Slice on a slice of at most 12 elements: insertion sort. Element i
\* is being inserted and has come down to place j.
insertionSort[a \in Seq(TxValues), i \in Nat, j \in Nat] ==
  IF i > Len(a) THEN a
  ELSE IF j > 1 /\ lessDesc(a[j], a[j - 1])
  THEN insertionSort[[a EXCEPT ![j] = a[j - 1], ![j - 1] = a[j]], i, j - 1]
  ELSE insertionSort[a, i + 1, i + 1]

\* b.getAllTransactionsSortedDesc(): the slice GetAllTransactions returned,
\* sorted in place.
getAllTransactionsSortedDesc ==
  Slice(GetAllTransactions.array, insertionSort[GetAllTransactions.elems, 2, 2])

\* d.Transactions once the slice all has been sorted: sort.Slice writes into
\* the array the slice points into.
TableAfterSort(all) ==
  IF all.array = "d.Transactions" THEN all.elems ELSE Transactions

\* /export: the whole table, newest first, sent as a document.
handleExport ==
  /\ started = "serving"
  /\ out = NoOut
  /\ ~exported.sent
  /\ mu = NoTask
  /\ exported' = [sent |-> TRUE, all |-> getAllTransactionsSortedDesc.elems]
  /\ Transactions' = TableAfterSort(getAllTransactionsSortedDesc)
  /\ UNCHANGED <<started, fileExists, file, mu, wbuf, pc, op, rows, cursor,
                 ret, saved, reply, arg, idx, hist>>
  /\ UNCHANGED <<botVars, envVars, backup, bytes, graph>>

\* for _, tx := range txs { total += tx.Amount }
RECURSIVE Total(_)
Total(txs) == IF txs = <<>> THEN 0 ELSE Head(txs).Amount + Total(Tail(txs))

\* The loop without its lower limit: every dated row up to the selected day.
CountsUpTo(tx, cycleStart, selectedDate) ==
  \E d \in {ParseInLocation(tx.Date, location)} :
     ~d.err /\ d.t.h <= selectedDate.h

\* The condition under which the loop of /saldo and /report adds tx to the
\* cycle's spend.
CountsInCycle(tx, cycleStart, selectedDate) ==
  \E d \in {ParseInLocation(tx.Date, location)} :
     /\ ~d.err
     /\ d.t.h >= cycleStart.h
     /\ d.t.h <= selectedDate.h

\* if x < least { x = least }
AtLeast(x, least) == IF x < least THEN least ELSE x

\* handleSaldo's dateStr: the argument when time.Parse accepts it, else
\* today's date in b.location.
SaldoDate(dateArg, now) ==
  IF dateArg # <<>> /\ ~ParseInLocation(dateArg, "UTC").err
  THEN dateArg ELSE Format(In(now, location))

\* What handleSaldo computes from the message's date argument (<<>>: none
\* given) and the clock, one local variable after the other; o is the record
\* of them when the reply is sent. (After time.Parse has accepted the
\* argument, or Format has made the date, ParseInLocation cannot fail: its
\* error branch is left out.)
SaldoWith(dateArg, now, today, o) ==
  \E dateStr \in {SaldoDate(dateArg, now)} :
  \E selectedDate \in {ParseInLocation(dateStr, location).t} :
  \E todayTotal \in {today} :
  \E monthlyBudget \in {getMonthlyBudget} :
  \E cycle \in {getCycleStartAndNext[selectedDate]} :
  \E cycleStart \in {cycle[1]}, nextCycleStart \in {cycle[2]} :
  \E daysInCycle \in {AtLeast(DaysBetween[nextCycleStart, cycleStart], 1)} :
  \E dayIndex \in {AtLeast(DaysBetween[selectedDate, cycleStart] + 1, 1)} :
  \E spentThroughToday \in
       {Total(SelectSeq(GetAllTransactions.elems,
                        LAMBDA tx : CountsInCycle(tx, cycleStart, selectedDate)))} :
  \E remainingDaysAfterToday \in {DaysBetween[nextCycleStart, selectedDate] - 1} :
  \E remainingBudgetAfterToday \in {AtLeast(monthlyBudget - spentThroughToday, 0)} :
    o =
      [cmd |-> "saldo",
       dateArg |-> dateArg,
       now |-> now,
       dateStr |-> dateStr,
       selectedDate |-> selectedDate,
       todayTotal |-> todayTotal,
       monthlyBudget |-> monthlyBudget,
       salaryDay |-> salaryDay,
       cycleStart |-> cycleStart,
       nextCycleStart |-> nextCycleStart,
       daysInCycle |-> daysInCycle,
       dayIndex |-> dayIndex,
       spentThroughToday |-> spentThroughToday,
       allowedCumulative |->
         [num |-> monthlyBudget * dayIndex, den |-> daysInCycle],
       saldoToday |->
         [num |-> monthlyBudget * dayIndex - spentThroughToday * daysInCycle,
          den |-> daysInCycle],
       remainingDaysAfterToday |-> remainingDaysAfterToday,
       tomorrowAllowance |->
         IF remainingDaysAfterToday > 0
         THEN [num |-> remainingBudgetAfterToday, den |-> remainingDaysAfterToday]
         ELSE [num |-> 0, den |-> 1],
       tomorrowShown |-> remainingDaysAfterToday > 0]

\* handleSaldo's figures when nothing else runs between its two reads of the
\* store: the day's total is taken from the table the rest is taken from.
SaldoStats(dateArg, now, o) ==
  SaldoWith(dateArg, now, Total(GetTransactionsByDate(SaldoDate(dateArg, now))), o)

\* A report that divides what is left of the budget, overspent or not.
ReportStatsUnclamped(dateArg, now, o) ==
  \E dateStr \in {IF dateArg # <<>> /\ ~ParseInLocation(dateArg, "UTC").err
                   THEN dateArg ELSE Format(In(now, location))} :
  \E selectedDate \in {ParseInLocation(dateStr, location).t} :
  \E todayTotal \in {Total(GetTransactionsByDate(dateStr))} :
  \E monthlyBudget \in {getMonthlyBudget} :
  \E cycle \in {getCycleStartAndNext[selectedDate]} :
  \E cycleStart \in {cycle[1]}, nextCycleStart \in {cycle[2]} :
  \E daysInCycle \in {AtLeast(DaysBetween[nextCycleStart, cycleStart], 1)} :
  \E dayIndex \in {AtLeast(DaysBetween[selectedDate, cycleStart] + 1, 1)} :
  \E spentThroughToday \in
       {Total(SelectSeq(GetAllTransactions.elems,
                        LAMBDA tx : CountsInCycle(tx, cycleStart, selectedDate)))} :
  \E remainingDaysAfterToday \in {DaysBetween[nextCycleStart, selectedDate] - 1} :
  \E remainingBudgetAfterToday \in {monthlyBudget - spentThroughToday} :
    o =
      [cmd |-> "report",
       dateArg |-> dateArg,
       now |-> now,
       dateStr |-> dateStr,
       selectedDate |-> selectedDate,
       todayTotal |-> todayTotal,
       monthlyBudget |-> monthlyBudget,
       salaryDay |-> salaryDay,
       cycleStart |-> cycleStart,
       nextCycleStart |-> nextCycleStart,
       daysInCycle |-> daysInCycle,
       dayIndex |-> dayIndex,
       spentThroughToday |-> spentThroughToday,
       allowedCumulative |->
         [num |-> monthlyBudget * dayIndex, den |-> daysInCycle],
       saldoToday |->
         [num |-> monthlyBudget * dayIndex - spentThroughToday * daysInCycle,
          den |-> daysInCycle],
       remainingDaysAfterToday |-> remainingDaysAfterToday,
       tomorrowAllowance |->
         IF remainingDaysAfterToday > 0
         THEN [num |-> remainingBudgetAfterToday, den |-> remainingDaysAfterToday]
         ELSE [num |-> 0, den |-> 1],
       tomorrowShown |-> remainingDaysAfterToday > 0]

\* What handleDailyReport computes, in the same way, up to its text report.
ReportStats(dateArg, now, o) ==
  \E dateStr \in {IF dateArg # <<>> /\ ~ParseInLocation(dateArg, "UTC").err
                   THEN dateArg ELSE Format(In(now, location))} :
  \E selectedDate \in {ParseInLocation(dateStr, location).t} :
  \E todayTotal \in {Total(GetTransactionsByDate(dateStr))} :
  \E monthlyBudget \in {getMonthlyBudget} :
  \E cycle \in {getCycleStartAndNext[selectedDate]} :
  \E cycleStart \in {cycle[1]}, nextCycleStart \in {cycle[2]} :
  \E daysInCycle \in {AtLeast(DaysBetween[nextCycleStart, cycleStart], 1)} :
  \E dayIndex \in {AtLeast(DaysBetween[selectedDate, cycleStart] + 1, 1)} :
  \E spentThroughToday \in
       {Total(SelectSeq(GetAllTransactions.elems,
                        LAMBDA tx : CountsInCycle(tx, cycleStart, selectedDate)))} :
  \E remainingDaysAfterToday \in {DaysBetween[nextCycleStart, selectedDate] - 1} :
  \E remainingBudgetAfterToday \in {AtLeast(monthlyBudget - spentThroughToday, 0)} :
    o =
      [cmd |-> "report",
       dateArg |-> dateArg,
       now |-> now,
       dateStr |-> dateStr,
       selectedDate |-> selectedDate,
       todayTotal |-> todayTotal,
       monthlyBudget |-> monthlyBudget,
       salaryDay |-> salaryDay,
       cycleStart |-> cycleStart,
       nextCycleStart |-> nextCycleStart,
       daysInCycle |-> daysInCycle,
       dayIndex |-> dayIndex,
       spentThroughToday |-> spentThroughToday,
       allowedCumulative |->
         [num |-> monthlyBudget * dayIndex, den |-> daysInCycle],
       saldoToday |->
         [num |-> monthlyBudget * dayIndex - spentThroughToday * daysInCycle,
          den |-> daysInCycle],
       remainingDaysAfterToday |-> remainingDaysAfterToday,
       tomorrowAllowance |->
         IF remainingDaysAfterToday > 0
         THEN [num |-> remainingBudgetAfterToday, den |-> remainingDaysAfterToday]
         ELSE [num |-> 0, den |-> 1],
       tomorrowShown |-> remainingDaysAfterToday > 0]

\* ------------------------------------------------------------------------
\* Inputs of the budget cycle

\* Number of consecutive reference dates, from FirstRefDate on.
MaxRefDays == 40

FirstRefDate == <<2025, 2, 8>>

\* The date arguments of /saldo and /report: a run of days across the end of
\* February and the start of daylight saving time, days at the year's ends,
\* a leap day, the end of daylight saving time, no argument, and arguments
\* that are no date.
DateArgs ==
  { CivilFromDays[DaysFromCivil[FirstRefDate[1], FirstRefDate[2], FirstRefDate[3]] + k] :
      k \in 0..(MaxRefDays - 1) }
  \cup { <<2025, 8, 9>>, <<2025, 1, 5>>, <<2025, 1, 31>>, <<2024, 2, 29>>,
         <<2024, 3, 1>>, <<2025, 11, 1>>, <<2025, 11, 2>>, <<2025, 11, 3>>,
         <<2025, 12, 31>> }
  \cup { <<>>, <<0>>, <<2025, 2, 30>> }

\* time.Now(): 2025-08-09 21:00 UTC, and 2025-03-09 03:00 UTC (still the 8th
\* in New York).
NowInputs ==
  { [loc |-> "UTC", h |-> 24 * DaysFromCivil[2025, 8, 9] + 21],
    [loc |-> "UTC", h |-> 24 * DaysFromCivil[2025, 3, 9] + 3] }

\* Values of SALARY_DAY: unset, 0..29, and text that is no number.
SalaryDayEnvs == {<<>>, <<"x">>} \cup {NatToDigits(n) : n \in 0..29}

\* Values of MONTHLY_BUDGET_RUB: unset, and 9000.50.
BudgetEnvs == {<<>>, <<"9", "0", "0", "0", ".", "5">>}

\* Arguments of /budget: none, show, reset, an amount (with a decimal comma),
\* and amounts that are refused.
BudgetArgs ==
  { <<>>, <<"s", "h", "o", "w">>, <<"r", "e", "s", "e", "t">>,
    <<"1", "5", "0", "0", "0", ",", "5">>, <<"0">>, <<"x">>,
    <<"N", "a", "N">> }

\* Tables the store may hold when the bot is asked.
SaldoTables ==
  { << Tx(<<2025, 1, 31>>, "Food", "", 1000),
       Tx(<<2025, 2, 10>>, "Food", "Lunch", 100000),
       Tx(<<0>>, "Food", "", 7000),
       Tx(<<2025, 2, 30>>, "Food", "", 3000),
       Tx(<<2025, 3, 9>>, "Transport", "", 50000),
       Tx(<<2025, 3, 1>>, "Refund", "", 0 - 5000),
       Tx(<<2025, 3, 20>>, "Food", "", 20000) >>,
    << Tx(<<2025, 2, 15>>, "Rent", "", 20000000),
       Tx(<<2025, 8, 1>>, "Rent", "", 9000000) >> }

\* The bot serving, with the store loaded.
InitSaldo ==
  /\ started = "serving"
  /\ fileExists = TRUE
  /\ Transactions \in SaldoTables
  /\ file = Records(Transactions)
  /\ hist = Transactions
  /\ mu = NoTask
  /\ wbuf = <<>>
  /\ pc = [t \in Tasks |-> "idle"]
  /\ op = [t \in Tasks |-> "none"]
  /\ rows = [t \in Tasks |-> <<>>]
  /\ cursor = [t \in Tasks |-> 0]
  /\ ret = "nil"
  /\ saved = "none"
  /\ reply = Reply("none", "none", <<>>, <<>>)
  /\ arg = [t \in Tasks |-> NoTx]
  /\ idx = [t \in Tasks |-> 0]
  /\ requests = {}
  /\ uploads = {}
  /\ location \in Locations
  /\ SALARY_DAY \in SalaryDayEnvs
  /\ MONTHLY_BUDGET_RUB \in BudgetEnvs
  /\ monthlyBudgetOverride = [nan |-> FALSE, val |-> 0]
  /\ hasMonthlyBudgetOverride = FALSE
  /\ out = NoOut
  /\ backup = NoBackup
  /\ bytes = <<>>
  /\ exported = NoExport
  /\ graph = NoGraph

\* /saldo [date], up to the reply it sends.
handleSaldo ==
  /\ started = "serving"
  /\ out = NoOut
  /\ \E dateArg \in DateArgs, now \in NowInputs :
       SaldoStats(dateArg, now, out')
  /\ UNCHANGED <<storeVars, envVars, otherVars, location, SALARY_DAY, MONTHLY_BUDGET_RUB,
                 monthlyBudgetOverride, hasMonthlyBudgetOverride>>

\* /report [date]: the text report, and after it the whole table, newest
\* first, as a document.
handleDailyReport ==
  /\ started = "serving"
  /\ out = NoOut
  /\ mu = NoTask
  /\ \E dateArg \in DateArgs, now \in NowInputs :
       ReportStats(dateArg, now, out')
  /\ exported' = [sent |-> TRUE, all |-> getAllTransactionsSortedDesc.elems]
  /\ Transactions' = TableAfterSort(getAllTransactionsSortedDesc)
  /\ UNCHANGED <<started, fileExists, file, mu, wbuf, pc, op, rows, cursor,
                 ret, saved, reply, arg, idx, hist>>
  /\ UNCHANGED <<envVars, backup, bytes, graph, location, SALARY_DAY,
                 MONTHLY_BUDGET_RUB, monthlyBudgetOverride,
                 hasMonthlyBudgetOverride>>

\* d.mu.Lock() succeeds: no store call of an HTTP handler holds d.mu.
Lock == mu = NoTask /\ \A t \in Http : pc[t] = "idle"

\* handleSaldo up to its first read of the store: GetTransactionsByDate takes
\* d.mu, copies the day's rows and releases it; the handler sums them.
saldoToday ==
  /\ started = "serving"
  /\ out = NoOut
  /\ Lock
  /\ \E dateArg \in {TxA.Date, TxB.Date}, now \in NowInputs :
       out' = [cmd |-> "saldo-today", dateArg |-> dateArg, now |-> now,
               todayTotal |->
                 Total(GetTransactionsByDate(SaldoDate(dateArg, now)))]
  /\ UNCHANGED <<storeVars, envVars, otherVars, location, SALARY_DAY, MONTHLY_BUDGET_RUB,
                 monthlyBudgetOverride, hasMonthlyBudgetOverride>>

\* The rest of handleSaldo: GetAllTransactions takes d.mu a second time, and
\* the cycle's spend is summed over the table as it is then.
saldoRest ==
  /\ started = "serving"
  /\ out.cmd = "saldo-today"
  /\ Lock
  /\ SaldoWith(out.dateArg, out.now, out.todayTotal, out')
  /\ UNCHANGED <<storeVars, envVars, otherVars, location, SALARY_DAY, MONTHLY_BUDGET_RUB,
                 monthlyBudgetOverride, hasMonthlyBudgetOverride>>

\* b.api.Send of the reply; the handler returns to the update loop.
Send ==
  /\ out # NoOut \/ exported.sent
  /\ out.cmd # "saldo-today"
  /\ out' = NoOut
  /\ exported' = NoExport
  /\ UNCHANGED <<storeVars, envVars, backup, bytes, graph, location, SALARY_DAY,
                 MONTHLY_BUDGET_RUB, monthlyBudgetOverride,
                 hasMonthlyBudgetOverride>>

\* strings.ReplaceAll(s, ",", ".")
ReplaceComma(s) == [i \in 1..Len(s) |-> IF s[i] = "," THEN "." ELSE s[i]]

\* /budget, /budget show, /budget reset, /budget <amount>
handleBudget ==
  /\ started = "serving"
  /\ out = NoOut
  /\ \E a \in BudgetArgs :
       LET val == ParseFloat(ReplaceComma(a))
       IN  IF a = <<>> \/ a = <<"s", "h", "o", "w">>
           THEN UNCHANGED <<monthlyBudgetOverride, hasMonthlyBudgetOverride>>
           ELSE IF a = <<"r", "e", "s", "e", "t">>
           THEN /\ hasMonthlyBudgetOverride' = FALSE
                /\ monthlyBudgetOverride' = [nan |-> FALSE, val |-> 0]
           ELSE IF val.err \/ (~val.nan /\ val.val <= 0)
           THEN UNCHANGED <<monthlyBudgetOverride, hasMonthlyBudgetOverride>>
           ELSE /\ monthlyBudgetOverride' = [nan |-> val.nan, val |-> val.val]
                /\ hasMonthlyBudgetOverride' = TRUE
  /\ UNCHANGED <<storeVars, envVars, otherVars, location, SALARY_DAY, MONTHLY_BUDGET_RUB, out>>

\* The store written by the web handlers while the bot exports.
InitExport ==
  /\ started = "serving"
  /\ fileExists = TRUE
  /\ Transactions \in {<<>>, <<TxA>>}
  /\ file = Records(Transactions)
  /\ hist = Transactions
  /\ mu = NoTask
  /\ wbuf = <<>>
  /\ pc = [t \in Tasks |-> "idle"]
  /\ op = [t \in Tasks |-> "none"]
  /\ rows = [t \in Tasks |-> <<>>]
  /\ cursor = [t \in Tasks |-> 0]
  /\ ret = "nil"
  /\ saved = "none"
  /\ reply = Reply("none", "none", <<>>, <<>>)
  /\ arg = [t \in Tasks |-> NoTx]
  /\ idx = [t \in Tasks |-> 0]
  /\ requests = {Req(TxA, 0), Req(TxB, 0)}
  /\ uploads = {}
  /\ location = "UTC"
  /\ SALARY_DAY = <<>>
  /\ MONTHLY_BUDGET_RUB = <<>>
  /\ monthlyBudgetOverride = [nan |-> FALSE, val |-> 0]
  /\ hasMonthlyBudgetOverride = FALSE
  /\ out = NoOut
  /\ backup = NoBackup
  /\ bytes = <<>>
  /\ exported = NoExport
  /\ graph = NoGraph

NextExport ==
  \/ \E t \in Http : handleTransaction(t)
  \/ \E t \in Http : SaveCreate(t)
  \/ \E t \in Http : SaveWrite(t)
  \/ \E t \in Http : SaveFlush(t)
  \/ handleExport
  \/ Send

SpecExport == InitExport /\ [][NextExport]_vars

\* ------------------------------------------------------------------------
\* GET /graph/data: the series of the chart

\* time.Time{}: January 1 of year 1, 00:00 UTC.
ZeroTime == [loc |-> "UTC", h |-> 24 * DaysFromCivil[1, 1, 1]]

IsZero(t) == t.h = ZeroTime.h

\* The hour of the clock of t in its location.
ClockOf[t \in Times] == (t.h + OffsetAt[t.loc, t.h]) % 24

\* t.AddDate(0, 0, days) of any t: the same hour of the clock, days later.
AddDays[t \in Times, days \in Int] ==
  LET c   == DateOf[t]
      day == DaysFromCivil[c[1], c[2], 1] + c[3] - 1 + days
      std == 24 * day + ClockOf[t] - StdOffset(t.loc)
  IN  [loc |-> t.loc,
       h   |-> IF OffsetAt[t.loc, std] = StdOffset(t.loc) THEN std
               ELSE 24 * day + ClockOf[t] - DstOffset(t.loc)]

\* t, _ := time.Parse(layout, str): the zero time where str does not parse.
ParseOrZero(str) ==
  IF ParseInLocation(str, "UTC").err THEN ZeroTime
  ELSE ParseInLocation(str, "UTC").t

\* minDate after the loop over txs, m being minDate so far.
RECURSIVE MinDate(_, _)
MinDate(txs, m) ==
  IF txs = <<>> THEN m
  ELSE MinDate(Tail(txs),
               IF m = <<>> \/ DateStringGreater(m, Head(txs).Date)
               THEN Head(txs).Date ELSE m)

\* maxDate after the loop over txs.
RECURSIVE MaxDate(_, _)
MaxDate(txs, m) ==
  IF txs = <<>> THEN m
  ELSE MaxDate(Tail(txs),
               IF m = <<>> \/ DateStringGreater(Head(txs).Date, m)
               THEN Head(txs).Date ELSE m)

\* daySum[key]
daySum(txs, key) == Total(SelectSeq(txs, LAMBDA tx : tx.Date = key))

\* The budget the server reads from MONTHLY_BUDGET_RUB.
budgetMonthly ==
  LET v == ParseFloat(MONTHLY_BUDGET_RUB)
  IN  IF MONTHLY_BUDGET_RUB # <<>> /\ ~v.err /\ v.val > 0
      THEN v.val ELSE DefaultMonthlyBudget

\* A running sum that is never set back.
cumNoReset(dayIndex, cum, spend) == cum + spend

\* if dayIndex == 1 { cum = 0 }; cum += spend
cumAfter(dayIndex, cum, spend) == (IF dayIndex = 1 THEN 0 ELSE cum) + spend

Ratios == [num : Int, den : Int]

PointValues == [Date : Seq(Int), Spend : Int, Cumulative : Int,
                BudgetCum : Ratios, Saldo : Ratios]

\* The loop over the window, at day d with the running sum cum and the
\* points res made so far.
walk[d \in Times, to \in Times, cum \in Int, res \in Seq(PointValues)] ==
  IF d.h > to.h THEN res
  ELSE LET key         == Format(d)
           spend       == daySum(GetAllTransactions.elems, key)
           firstOfMonth == Date[DateOf[d][1], DateOf[d][2], 1, "UTC"]
           daysInMonth == DateOf[AddDate[firstOfMonth, 0, 1, 0 - 1]][3]
           dayIndex    == DateOf[d][3]
           c           == cumAfter(dayIndex, cum, spend)
       IN  walk[AddDays[d, 1], to, c,
                Append(res,
                       [Date |-> key,
                        Spend |-> spend,
                        Cumulative |-> c,
                        BudgetCum |-> [num |-> budgetMonthly * dayIndex,
                                       den |-> daysInMonth],
                        Saldo |-> [num |-> budgetMonthly * dayIndex
                                           - c * daysInMonth,
                                   den |-> daysInMonth]])]

\* The query parameters from and to: not given, no date, and dates.
GraphFroms == {<<>>, <<0>>, <<2025, 7, 30>>, <<2025, 8, 3>>, <<2025, 2, 27>>}

GraphTos == {<<>>, <<2025, 8, 2>>, <<2025, 7, 29>>, <<2025, 3, 2>>}

\* Most days a window may have for the walk to be followed.
MaxPoints == 100

\* handleGraphData with the query parameters fromStr and toStr (<<>>: not
\* given) at the instant now.
handleGraphData ==
  /\ started = "serving"
  /\ mu = NoTask
  /\ ~graph.sent
  /\ \E fromStr \in GraphFroms, toStr \in GraphTos, now \in NowInputs :
     \E txs \in {GetAllTransactions.elems} :
     \E minDate \in {MinDate(txs, <<>>)}, maxDate \in {MaxDate(txs, <<>>)} :
     \E defaultFrom \in {AddDays[now, 0 - 90]} :
     \E from0 \in {IF fromStr # <<>> THEN ParseOrZero(fromStr) ELSE ZeroTime} :
     \E to0 \in {IF toStr # <<>> THEN ParseOrZero(toStr) ELSE ZeroTime} :
     \E mi \in {ParseOrZero(minDate)}, ma \in {ParseOrZero(maxDate)} :
     \E from1 \in
          {IF ~(IsZero(from0) \/ IsZero(to0)) THEN from0
           ELSE IF minDate # <<>> /\ maxDate # <<>>
           THEN (IF IsZero(from0)
                 THEN (IF ma.h < defaultFrom.h THEN mi ELSE defaultFrom)
                 ELSE from0)
           ELSE AddDays[now, 0 - 30]} :
     \E to1 \in
          {IF ~(IsZero(from0) \/ IsZero(to0)) THEN to0
           ELSE IF minDate # <<>> /\ maxDate # <<>>
           THEN (IF IsZero(to0) THEN ma ELSE to0)
           ELSE now} :
     \E from \in {IF from1.h > to1.h THEN to1 ELSE from1} :
     \E to \in {IF from1.h > to1.h THEN from1 ELSE to1} :
       /\ to.h - from.h <= 24 * MaxPoints
       /\ graph' = [sent |-> TRUE,
                    fromStr |-> fromStr,
                    toStr |-> toStr,
                    now |-> now,
                    from |-> Format(from),
                    to |-> Format(to),
                    monthlyBudget |-> budgetMonthly,
                    points |-> walk[from, to, 0, <<>>]]
  /\ UNCHANGED <<storeVars, botVars, envVars, backup, bytes, exported>>

\* c.JSON(http.StatusOK, ...): the answer is with the client.
graphSent ==
  /\ graph.sent
  /\ graph' = NoGraph
  /\ UNCHANGED <<storeVars, botVars, envVars, backup, bytes, exported>>

\* Tables the store may hold when the chart is asked for: none, rows of
\* 2023, and rows of the summer of 2025 (two of them of August 1).
GraphTables ==
  { <<>>,
    <<TxA, TxB>>,
    << Tx(<<2025, 8, 1>>, "Food", "", 30000),
       Tx(<<2025, 7, 30>>, "Food", "Lunch", 100000),
       Tx(<<2025, 8, 9>>, "Transport", "", 50000),
       Tx(<<2025, 8, 1>>, "Rent", "", 7000) >>,
    << Tx(<<2025, 2, 28>>, "Food", "", 1000),
       Tx(<<2025, 3, 1>>, "Food", "", 2000),
       Tx(<<2025, 3, 2>>, "Food", "", 4000) >> }

InitGraph ==
  /\ started = "serving"
  /\ fileExists = TRUE
  /\ Transactions \in GraphTables
  /\ file = Records(Transactions)
  /\ hist = Transactions
  /\ mu = NoTask
  /\ wbuf = <<>>
  /\ pc = [t \in Tasks |-> "idle"]
  /\ op = [t \in Tasks |-> "none"]
  /\ rows = [t \in Tasks |-> <<>>]
  /\ cursor = [t \in Tasks |-> 0]
  /\ ret = "nil"
  /\ saved = "none"
  /\ reply = Reply("none", "none", <<>>, <<>>)
  /\ arg = [t \in Tasks |-> NoTx]
  /\ idx = [t \in Tasks |-> 0]
  /\ requests = {}
  /\ uploads = {}
  /\ location = "UTC"
  /\ SALARY_DAY = <<>>
  /\ MONTHLY_BUDGET_RUB \in BudgetEnvs
  /\ monthlyBudgetOverride = [nan |-> FALSE, val |-> 0]
  /\ hasMonthlyBudgetOverride = FALSE
  /\ out = NoOut
  /\ backup = NoBackup
  /\ bytes = <<>>
  /\ exported = NoExport
  /\ graph = NoGraph

NextGraph ==
  \/ handleGraphData
  \/ graphSent

SpecGraph == InitGraph /\ [][NextGraph]_vars

\* The cycle bounds alone: the bot with any cycle day and location, asked
\* for the cycle of a date.
InitCycle ==
  /\ started = "serving"
  /\ fileExists = TRUE
  /\ Transactions = <<>>
  /\ file = Records(Transactions)
  /\ hist = Transactions
  /\ mu = NoTask
  /\ wbuf = <<>>
  /\ pc = [t \in Tasks |-> "idle"]
  /\ op = [t \in Tasks |-> "none"]
  /\ rows = [t \in Tasks |-> <<>>]
  /\ cursor = [t \in Tasks |-> 0]
  /\ ret = "nil"
  /\ saved = "none"
  /\ reply = Reply("none", "none", <<>>, <<>>)
  /\ arg = [t \in Tasks |-> NoTx]
  /\ idx = [t \in Tasks |-> 0]
  /\ requests = {}
  /\ uploads = {}
  /\ location \in Locations
  /\ SALARY_DAY \in SalaryDayEnvs
  /\ MONTHLY_BUDGET_RUB = <<>>
  /\ monthlyBudgetOverride = [nan |-> FALSE, val |-> 0]
  /\ hasMonthlyBudgetOverride = FALSE
  /\ out = NoOut
  /\ backup = NoBackup
  /\ bytes = <<>>
  /\ exported = NoExport
  /\ graph = NoGraph

\* cycleStart, nextCycleStart := b.getCycleStartAndNext(selectedDate), for a
\* selectedDate that time.ParseInLocation made of a date.
cycleBounds ==
  /\ started = "serving"
  /\ out = NoOut
  /\ \E dateStr \in {d \in DateArgs : ~ParseInLocation(d, "UTC").err} :
     \E selectedDate \in {ParseInLocation(dateStr, location).t} :
     \E cycle \in {getCycleStartAndNext[selectedDate]} :
       out' = [cmd |-> "cycle",
               dateStr |-> dateStr,
               selectedDate |-> selectedDate,
               salaryDay |-> salaryDay,
               cycleStart |-> cycle[1],
               nextCycleStart |-> cycle[2]]
  /\ UNCHANGED <<storeVars, envVars, otherVars, location, SALARY_DAY,
                 MONTHLY_BUDGET_RUB, monthlyBudgetOverride,
                 hasMonthlyBudgetOverride>>

NextCycle ==
  \/ cycleBounds
  \/ Send

SpecCycle == InitCycle /\ [][NextCycle]_vars

NextSaldo ==
  \/ handleSaldo
  \/ handleDailyReport
  \/ handleBudget
  \/ Send

SpecSaldo == InitSaldo /\ [][NextSaldo]_vars

\* ------------------------------------------------------------------------
\* Properties of the store

AllIdle == \A t \in Tasks : pc[t] = "idle"

Adds == {"add", "webapp", "import"}

\* An amount field with exactly two digits after the point.
TwoDecimals(s) ==
  /\ Len(s) >= 4
  /\ s[Len(s) - 2] = "."
  /\ IsDigits(SubSeq(s, Len(s) - 1, Len(s)))
  /\ LET whole == SubSeq(s, 1, Len(s) - 3)
     IN  IsDigits(whole) \/ (whole[1] = "-" /\ IsDigits(Tail(whole)))

\* Task t's save() returns in this step.
SaveReturns(t) ==
  /\ pc[t] \in {"save", "flush"}
  /\ pc'[t] \notin {"save", "write", "flush"}

\* C1: once the AddTransaction calls have returned and the last rewrite
\* reported success, the table is the appended transactions in insertion
\* order and the file is the header followed by one row per transaction of
\* the table, in the table's order, each amount with exactly two decimals.
C1_FileIsHeaderAndRows ==
  (started = "serving" /\ AllIdle /\ saved = "nil") =>
     /\ Transactions = hist
     /\ Len(file) = Len(Transactions) + 1
     /\ file[1] = Header
     /\ \A i \in 1..Len(Transactions) :
          /\ file[i + 1] = RowOf(Transactions[i])
          /\ TwoDecimals(file[i + 1][4])

\* The rows of a file, without its header.
FileRows(f) == IF f = <<>> THEN <<>> ELSE Tail(f)

\* C2: a rewrite runs only while its task holds the lock, one rewrite at a
\* time; and once all calls have returned without an error the table holds
\* every appended transaction exactly once, and the file the same rows in
\* the same order.
C2_NoLostAppend ==
  /\ \A t \in Tasks : pc[t] \in {"write", "flush"} => mu = t
  /\ Cardinality({t \in Tasks : pc[t] \in {"write", "flush"}}) <= 1
  /\ (started = "serving" /\ AllIdle /\ saved = "nil") =>
        /\ Transactions = hist
        /\ FileRows(file) = [i \in 1..Len(Transactions) |-> RowOf(Transactions[i])]

\* C3: the step in which an import or a reset changes the table leaves it
\* holding exactly the rows of that import, all of them and nothing else.
C3_ImportIsOneSwap ==
  [][\A t \in Tasks :
       (pc[t] # "save" /\ pc'[t] = "save"
          /\ op'[t] \in {"import", "replace", "clear"})
       => Transactions' = rows'[t]]_vars

\* A file with a first record that load() has to refuse: the header is not
\* the expected one, or a data row has not 4 fields, or an amount is no
\* number.
BadFile(f) ==
  /\ Len(f) > 0
  /\ \/ f[1] # Header
     \/ \E i \in 2..Len(f) : Len(f[i]) # 4 \/ ParseFloat(f[i][4]).err

\* C4: New on such a file returns an error: the process never serves (no
\* step follows a failed start) and holds no table.
C4_BadFileFailsLoad ==
  [][/\ started # "failed"
     /\ (started = "boot" /\ fileExists /\ BadFile(file))
          => (started' = "failed" /\ Transactions' = <<>>)]_vars

C4_Witness ==
  /\ started = "failed"
  /\ BadFile(file)
  /\ ~compareStringSlices(file[1], Header) \/ Len(file) > 2

\* C5: an AddTransaction that returns nil leaves the file holding the full
\* table.
C5_NilMeansWritten ==
  [][\A t \in Tasks :
       (op[t] \in Adds /\ SaveReturns(t) /\ saved' = "nil")
       => file' = Records(Transactions')]_vars

\* C6: the table is always what was appended or installed, a failed rewrite
\* takes nothing out of it (the row AddTransaction appended stays where it
\* was put), and a later rewrite that is written out in full puts every row
\* of the table into the file.
C6_NoRollback ==
  [][/\ Transactions' = hist'
     /\ \A t \in Tasks :
          /\ (op[t] \in Adds /\ SaveReturns(t) /\ saved' = "err") =>
                /\ Transactions' = Transactions
                /\ idx[t] # 0 =>
                      /\ idx[t] <= Len(Transactions')
                      /\ Transactions'[idx[t]] = arg[t]
          /\ (pc[t] = "flush" /\ ret = "nil" /\ file' = file \o wbuf) =>
                file' = Records(Transactions')]_vars

\* An AddTransaction has failed, its row is in the table and not in the file.
C6_Witness ==
  /\ AllIdle
  /\ reply.op = "add"
  /\ reply.status = "err"
  /\ Len(Transactions) > 0
  /\ Len(file) <= Len(Transactions)

\* ------------------------------------------------------------------------
\* Properties of the budget cycle, stated on calendar dates

\* The cycle that holds the reference date ref when cycles begin on day cd
\* of the month.
CalCycleStart(ref, cd) ==
  IF ref[3] >= cd THEN <<ref[1], ref[2], cd>>
  ELSE IF ref[2] = 1 THEN <<ref[1] - 1, 12, cd>>
  ELSE <<ref[1], ref[2] - 1, cd>>

\* The same day of the month, one calendar month later.
CalNextMonth(date) ==
  IF date[2] = 12 THEN <<date[1] + 1, 1, date[3]>>
  ELSE <<date[1], date[2] + 1, date[3]>>

\* Whole days from date a to date b.
CalDays(a, b) == DaysFromCivil[b[1], b[2], b[3]] - DaysFromCivil[a[1], a[2], a[3]]

\* a is b or a date before b.
DateLeq(a, b) ==
  \/ a[1] < b[1]
  \/ a[1] = b[1] /\ a[2] < b[2]
  \/ a[1] = b[1] /\ a[2] = b[2] /\ a[3] <= b[3]

IsDate(str) == ~ParseInLocation(str, "UTC").err

RefStart == CalCycleStart(out.dateStr, out.salaryDay)

RefEnd == CalNextMonth(RefStart)

\* C7: the cycle start is the cycle day of the reference date's month, or of
\* the month before when the reference day is less than the cycle day; the
\* cycle end is the same day one calendar month later; dayIndex is the whole
\* days from the start to the reference date plus 1, daysInCycle the whole
\* days from the start to the end (cycle day 15 and 2025-08-09 give
\* 2025-07-15, 2025-08-15, 31 and 26).
C7_CycleByCalendar ==
  out # NoOut =>
    /\ out.salaryDay \in 1..28
    /\ DateOf[out.cycleStart] = RefStart
    /\ DateOf[out.nextCycleStart] = RefEnd
    /\ out.dayIndex = CalDays(RefStart, out.dateStr) + 1
    /\ out.daysInCycle = CalDays(RefStart, RefEnd)
    /\ (out.salaryDay = 15 /\ out.dateStr = <<2025, 8, 9>>) =>
          /\ RefStart = <<2025, 7, 15>>
          /\ RefEnd = <<2025, 8, 15>>
          /\ out.daysInCycle = 31
          /\ out.dayIndex = 26

\* tx is dated, on a day from the cycle's first day to the reference date.
InCycleToDate(tx) ==
  /\ IsDate(tx.Date)
  /\ DateLeq(RefStart, tx.Date)
  /\ DateLeq(tx.Date, out.dateStr)

\* C8: the cumulative spend is the sum of the amounts of exactly the
\* transactions dated YYYY-MM-DD from the cycle's first day to the reference
\* date, both included; rows whose date does not parse, rows before the cycle
\* and rows after the reference date add nothing.
C8_SpentInCycle ==
  out # NoOut =>
    out.spentThroughToday = Total(SelectSeq(Transactions, InCycleToDate))

\* A reply computed over rows on the cycle's first day, on the reference
\* date, before the cycle, after the reference date, and without a date.
C8_Witness ==
  /\ out # NoOut
  /\ out.spentThroughToday # 0
  /\ \E i \in 1..Len(Transactions) : Transactions[i].Date = RefStart
  /\ \E i \in 1..Len(Transactions) : Transactions[i].Date = out.dateStr
  /\ \E i \in 1..Len(Transactions) : ~IsDate(Transactions[i].Date)
  /\ \E i \in 1..Len(Transactions) :
       IsDate(Transactions[i].Date) /\ ~DateLeq(RefStart, Transactions[i].Date)
  /\ \E i \in 1..Len(Transactions) :
       IsDate(Transactions[i].Date) /\ ~DateLeq(Transactions[i].Date, out.dateStr)

\* C9: allowedCumulative is monthlyBudget * dayIndex / daysInCycle and saldo
\* is allowedCumulative - spentCumulative; on the last day of the cycle
\* allowedCumulative is monthlyBudget, and on no day is it more.
C9_AllowedWithinBudget ==
  out # NoOut =>
    /\ out.monthlyBudget > 0
    /\ out.allowedCumulative =
         [num |-> out.monthlyBudget * out.dayIndex, den |-> out.daysInCycle]
    /\ out.saldoToday =
         [num |-> out.allowedCumulative.num
                  - out.spentThroughToday * out.allowedCumulative.den,
          den |-> out.allowedCumulative.den]
    /\ CalDays(out.dateStr, RefEnd) = 1 =>
         out.allowedCumulative.num = out.monthlyBudget * out.allowedCumulative.den
    /\ out.allowedCumulative.num <= out.monthlyBudget * out.allowedCumulative.den

\* C10: remainingDays is the whole days from the reference date to the cycle
\* end, less 1. When it is positive the tomorrow allowance is
\* max(0, monthlyBudget - spentCumulative) / remainingDays and is shown; when
\* it is not (the reference date is the cycle's last day) the allowance is 0
\* and left out of the reply. The allowance is never negative.
C10_TomorrowAllowance ==
  out # NoOut =>
    LET remainingDays == CalDays(out.dateStr, RefEnd) - 1
        left == out.monthlyBudget - out.spentThroughToday
    IN  /\ out.remainingDaysAfterToday = remainingDays
        /\ remainingDays > 0 =>
             /\ out.tomorrowShown
             /\ out.tomorrowAllowance =
                  [num |-> IF left < 0 THEN 0 ELSE left, den |-> remainingDays]
        /\ remainingDays <= 0 =>
             /\ ~out.tomorrowShown
             /\ out.tomorrowAllowance.num = 0
        /\ out.tomorrowAllowance.num >= 0
        /\ out.tomorrowAllowance.den > 0

\* C11: for the same date argument, clock, table, cycle day and monthly
\* budget, /report and /saldo compute the same spend of the day, cumulative
\* spend, allowed cumulative, saldo and tomorrow allowance (and the same
\* intermediate values): what one command has computed is what the other
\* computes from the same inputs.
C11_ReportEqualsSaldo ==
  out # NoOut =>
    /\ out.cmd = "report" =>
         SaldoStats(out.dateArg, out.now, [out EXCEPT !.cmd = "saldo"])
    /\ out.cmd = "saldo" =>
         ReportStats(out.dateArg, out.now, [out EXCEPT !.cmd = "report"])

\* A report over a day with spend, in a cycle overspent before its last day.
C11_Witness ==
  /\ out # NoOut
  /\ out.cmd = "report"
  /\ out.todayTotal # 0
  /\ out.spentThroughToday > out.monthlyBudget
  /\ out.tomorrowShown

\* C12: every transaction in the store has a category, an amount above zero
\* and a date that is a calendar date written YYYY-MM-DD.
C12_StoredRowsAreValid ==
  \A i \in 1..Len(Transactions) :
     /\ Transactions[i].Category # ""
     /\ Transactions[i].Amount > 0
     /\ IsDate(Transactions[i].Date)

\* The lines of an upload (the header is line 1) that hold a data row with
\* a wrong number of fields, an amount that is no number, or an amount that
\* is not above zero.
InvalidLines(f) ==
  IF f = <<>> \/ f[1] # Header THEN {}
  ELSE {i \in 2..Len(f) :
          \/ Len(f[i]) # 4
          \/ ParseFloat(f[i][4]).err
          \/ ParseFloat(f[i][4]).val <= 0}

\* C13: an import of an upload with invalid data rows ends with a reply that
\* lists one error for each invalid row, by its line number (all of them,
\* not only the first), and leaves the table and the file as they were.
C13_ImportListsEveryBadRow ==
  [][(/\ pc' = pc
      /\ reply'.op \in {"replace", "import"}
      /\ reply'.status \in {"rejected", "panic"}
      /\ InvalidLines(reply'.upload) # {})
     => /\ reply'.status = "rejected"
        /\ Len(reply'.errors) = Cardinality(InvalidLines(reply'.upload))
        /\ {reply'.errors[k].line : k \in 1..Len(reply'.errors)}
             = InvalidLines(reply'.upload)
        /\ Transactions' = Transactions
        /\ file' = file]_vars

\* C14: a backup holds the complete serialization (the header and every row)
\* of a table the store had: here, where rows are only appended, of the
\* first k rows that were appended, for some k.
C14_BackupIsWholeTable ==
  backup.taken =>
    \E k \in 0..Len(hist) : backup.data = Records(SubSeq(hist, 1, k))

\* A table whose amounts have at most two decimals and whose descriptions
\* hold no delimiter.
RoundTrips(table) ==
  \A i \in 1..Len(table) :
     /\ table[i].Amount % 10 = 0
     /\ \A k \in 1..Len(table[i].Description) :
          table[i].Description[k] # Comma

\* C15: a fresh store that loads the file save() wrote for such a table
\* holds the same table, field for field and in the same order.
C15_RoundTrip ==
  [][(started = "serving" /\ saved = "nil" /\ RoundTrips(Transactions))
     => (started' = "loaded" /\ Transactions' = Transactions)]_vars

\* C16: where the backing file does not exist, load() leaves a file that
\* holds the header row and nothing else, and the store starts serving with
\* zero transactions.
C16_LoadCreatesHeader ==
  [][(started = "boot" /\ ~fileExists)
     => /\ started' = "serving"
        /\ fileExists'
        /\ file' = <<Header>>
        /\ Transactions' = <<>>]_vars

\* The rows of s, each as often as it occurs in s.
RowsOf(s) == [r \in {s[i] : i \in 1..Len(s)} |-> Cardinality({i \in 1..Len(s) : s[i] = r})]

\* C17: the slice /export sorts is a copy of the whole table: it holds the
\* rows of the table as it was, newest first, while the store's table stays
\* in insertion order and every rewrite puts the rows into the file in
\* insertion order.
C17_ExportSortsACopy ==
  /\ Transactions = hist
  /\ \E k \in 0..(Len(hist) + 1) : file = SubSeq(Records(hist), 1, k)
  /\ exported.sent =>
       /\ \E k \in 0..Len(hist) : RowsOf(exported.all) = RowsOf(SubSeq(hist, 1, k))
       /\ \A i \in 1..(Len(exported.all) - 1) :
            ~lessDesc(exported.all[i + 1], exported.all[i])

C17_Witness ==
  /\ exported.sent
  /\ exported.all = <<TxB, TxA>>
  /\ Transactions = <<TxA, TxB>>
  /\ file = Records(<<TxA, TxB>>)
  /\ saved = "nil"
  /\ \A t \in Tasks : pc[t] = "idle"

\* C18: with a cycle day in 1..28, the cycle bounds computed for any day d
\* with cycleStart <= d < cycleEnd are the bounds computed for the reference
\* date.
C18_CycleBoundsIdempotent ==
  (out # NoOut /\ out.cmd = "cycle") =>
    /\ out.salaryDay \in 1..28
    /\ \A k \in 0..31 :
         AddDate[out.cycleStart, 0, 0, k].h < out.nextCycleStart.h =>
           getCycleStartAndNext[AddDate[out.cycleStart, 0, 0, k]]
             = <<out.cycleStart, out.nextCycleStart>>

C18_Witness ==
  /\ out # NoOut
  /\ out.cmd = "cycle"
  /\ out.salaryDay = 28
  /\ location = "America/New_York"
  /\ out.dateStr = <<2025, 3, 10>>
  /\ out.cycleStart = Date[2025, 2, 28, location]
  /\ out.nextCycleStart = Date[2025, 3, 28, location]

\* The day number of a date <<y, m, d>>.
DayNumber(date) == DaysFromCivil[date[1], date[2], date[3]]

\* C19: the series has one point for every calendar day from the answer's
\* from to its to, both included, in ascending order, and each point's spend
\* is the sum of the amounts of the rows dated that day.
C19_OnePointPerDay ==
  graph.sent =>
    /\ Len(graph.points) = DayNumber(graph.to) - DayNumber(graph.from) + 1
    /\ \A i \in 1..Len(graph.points) :
         /\ graph.points[i].Date = CivilFromDays[DayNumber(graph.from) + i - 1]
         /\ graph.points[i].Spend =
              Total(SelectSeq(Transactions,
                              LAMBDA tx : tx.Date = graph.points[i].Date))

\* C20: the cumulative spend of a point of day-of-month 1, and of the first
\* point, is that day's spend; the cumulative spend of every other point is
\* the previous point's plus that day's spend.
C20_CumulativeRestartsOnTheFirst ==
  graph.sent =>
    \A i \in 1..Len(graph.points) :
       graph.points[i].Cumulative =
         graph.points[i].Spend
           + (IF i = 1 \/ graph.points[i].Date[3] = 1 THEN 0
              ELSE graph.points[i - 1].Cumulative)

C20_Witness ==
  /\ graph.sent
  /\ graph.from = <<2025, 7, 30>>
  /\ graph.to = <<2025, 8, 2>>
  /\ Len(graph.points) = 4
  /\ graph.points[1].Cumulative = 100000
  /\ graph.points[2].Cumulative = 100000
  /\ graph.points[3].Date = <<2025, 8, 1>>
  /\ graph.points[3].Cumulative = 37000
  /\ graph.points[4].Cumulative = 37000

\* The total of the rows dated in the month of date, up to date's day.
MonthToDate(date) ==
  Total(SelectSeq(Transactions,
                  LAMBDA tx : /\ Len(tx.Date) = 3
                              /\ tx.Date[1] = date[1]
                              /\ tx.Date[2] = date[2]
                              /\ tx.Date[3] <= date[3]))

\* C21: at every point of the series the cumulative spend is the total of
\* the rows dated from the 1st of the point's month through the point's day,
\* also where the window begins in the middle of a month.
C21_CumulativeIsMonthToDate ==
  graph.sent =>
    \A i \in 1..Len(graph.points) :
       graph.points[i].Cumulative = MonthToDate(graph.points[i].Date)

\* The earliest and the latest day number among the dated rows.
FirstDay == CHOOSE a \in {DayNumber(Transactions[i].Date) : i \in 1..Len(Transactions)} :
              \A i \in 1..Len(Transactions) : a <= DayNumber(Transactions[i].Date)

LastDay == CHOOSE a \in {DayNumber(Transactions[i].Date) : i \in 1..Len(Transactions)} :
             \A i \in 1..Len(Transactions) : a >= DayNumber(Transactions[i].Date)

Today == DayNumber(DateOf[graph.now])

\* C22: without from and to, the window is the last 90 days, or the whole
\* range of the rows' dates where that range is shorter than 90 days; with no
\* rows it is the last 30 days ending today.
C22_DefaultWindow ==
  (graph.sent /\ graph.fromStr = <<>> /\ graph.toStr = <<>>) =>
    IF Transactions = <<>>
    THEN /\ DayNumber(graph.from) = Today - 30
         /\ DayNumber(graph.to) = Today
    ELSE IF LastDay - FirstDay < 90
    THEN /\ DayNumber(graph.from) = FirstDay
         /\ DayNumber(graph.to) = LastDay
    ELSE /\ DayNumber(graph.from) = Today - 90
         /\ DayNumber(graph.to) = Today

\* C23: every /budget command either leaves the budget that /saldo, /report
\* and /start use as it was (no amount, or an amount that is no number or
\* not above zero), or puts it back to the configured default (reset), or
\* makes a number above zero the override, which is then the budget in use.
C23_BudgetFollowsLastValidAmount ==
  [][\/ getMonthlyBudget' = getMonthlyBudget
     \/ /\ ~hasMonthlyBudgetOverride'
        /\ getMonthlyBudget' = budgetMonthly
     \/ /\ hasMonthlyBudgetOverride'
        /\ ~monthlyBudgetOverride'.nan
        /\ monthlyBudgetOverride'.val > 0
        /\ getMonthlyBudget' = monthlyBudgetOverride'.val]_vars

\* C24: a POST /transaction that passes the checks puts exactly one row, its
\* own, at the end of the table: through the bot's HandleWebAppData where it
\* has a chat id, through the web handler where it has none; the rewrite
\* that follows adds no row, and a request that is refused adds none.
C24_OneRowPerRequest ==
  [][/\ (pc["h1"] = "idle" /\ pc'["h1"] = "save"
         /\ op'["h1"] \in {"add", "webapp"}) =>
          /\ Transactions' = Append(Transactions, arg'["h1"])
          /\ \E req \in requests :
               /\ ValidRequest(req)
               /\ TxOfRequest(req) = arg'["h1"]
               /\ op'["h1"] = IF req.ChatID # 0 THEN "webapp" ELSE "add"
     /\ (op["h1"] \in {"add", "webapp"} /\ pc'["h1"] # pc["h1"]) =>
          Transactions' = Transactions
     /\ (reply' # reply /\ reply'.op = "add" /\ reply'.status = "rejected") =>
          Transactions' = Transactions]_vars

C24_Witness ==
  /\ op["h1"] = "webapp"
  /\ pc["h1"] = "save"
  /\ arg["h1"] = TxB
  /\ Transactions = <<TxA, TxB>>

\* An upload that csv.Reader reads in full: the header and records of four
\* fields.
WellFormed(f) ==
  /\ f # <<>>
  /\ f[1] = Header
  /\ \A i \in 1..Len(f) : Len(f[i]) = 4

Least(a, b) == IF a < b THEN a ELSE b

\* C25: the bot, given a CSV file with k >= 1 invalid data rows, replies
\* with the first min(k, 10) errors, appends nothing and returns: the bot
\* goes on serving.
C25_BotListsFirstTenErrors ==
  [][(reply' # reply /\ reply'.op = "import" /\ WellFormed(reply'.upload)
      /\ InvalidLines(reply'.upload) # {})
     => /\ started' = "serving"
        /\ reply'.status = "rejected"
        /\ Len(reply'.errors) = Least(Cardinality(InvalidLines(reply'.upload)), 10)
        /\ Transactions' = Transactions]_vars

\* C26: in every reply of /saldo and /report the cycle holds the reference
\* date, dayIndex lies in 1..daysInCycle, daysInCycle in 28..31, the days
\* that remain are daysInCycle - dayIndex, and the two day counts are at
\* least 1 before they are forced up to 1.
C26_CycleShape ==
  out.cmd \in {"saldo", "report"} =>
    /\ out.salaryDay \in 1..28
    /\ out.cycleStart.h <= out.selectedDate.h
    /\ out.selectedDate.h < out.nextCycleStart.h
    /\ 1 <= out.dayIndex
    /\ out.dayIndex <= out.daysInCycle
    /\ 28 <= out.daysInCycle
    /\ out.daysInCycle <= 31
    /\ out.remainingDaysAfterToday = out.daysInCycle - out.dayIndex
    /\ DaysBetween[out.nextCycleStart, out.cycleStart] >= 1
    /\ DaysBetween[out.selectedDate, out.cycleStart] + 1 >= 1

\* /saldo beside the HTTP handlers: the two reads of the store are two steps,
\* and a handler's store call may run between them.
InitRace == InitInput

NextRace ==
  \/ saldoToday
  \/ saldoRest
  \/ Send
  \/ handleTransaction("h1")
  \/ handleCSVUpload("h1")
  \/ SaveCreate("h1")
  \/ SaveWrite("h1")
  \/ SaveFlush("h1")

SpecRace == InitRace /\ [][NextRace]_vars

\* C27: the spend-today and cumulative-spend figures of one /saldo reply come
\* from one state of the table, whatever the HTTP handlers do meanwhile; so,
\* all amounts being positive, spend-today never exceeds the cumulative spend.
C27_FiguresFromOneState ==
  out.cmd = "saldo" => out.todayTotal <= out.spentThroughToday

\* The graph endpoint beside /budget.
NextBudget ==
  \/ handleBudget
  \/ handleGraphData
  \/ graphSent

SpecBudget == InitGraph /\ [][NextBudget]_vars

\* C28: the monthly budget a graph series is built with is the one /saldo and
\* /report use at that moment, also after /budget <amount> and /budget reset.
C28_GraphUsesTheBotsBudget ==
  graph.sent => graph.monthlyBudget = getMonthlyBudget

\* C29: a file sent to the bot that holds the header and no data row is
\* handled to the end: the handler returns, the process goes on serving, and
\* the table is as it was.
C29_HeaderOnlyImport ==
  [][(reply' # reply /\ reply'.op = "import" /\ reply'.upload = <<Header>>)
     => /\ started' = "serving"
        /\ reply'.status # "panic"
        /\ Transactions' = Transactions]_vars

\* A from or to parameter that is present and that time.Parse accepts.
GivenDate(s) == s # <<>> /\ ~IsZero(ParseOrZero(s))

\* C30: a valid from date is where the returned window starts and a valid to
\* date is where it ends, whether or not the other one is given and whether
\* or not the table holds rows; the two change places only when from is
\* later than to.
C30_GivenDatesBoundTheWindow ==
  graph.sent =>
    /\ GivenDate(graph.fromStr)
         => \/ graph.from = graph.fromStr
            \/ graph.to = graph.fromStr /\ graph.from = graph.toStr
    /\ GivenDate(graph.toStr)
         => \/ graph.to = graph.toStr
            \/ graph.from = graph.toStr /\ graph.to = graph.fromStr

====
